---- MODULE Spec2Model ----
(***************************************************************************)
(* Retrieval core of AnswerSelector: the embedding engine (EmbedManager),  *)
(* the record store with its category index (DataManager), the similarity  *)
(* ranker (EmbedManager.search_similarity), the slots and memos beside     *)
(* them (SelectionManager, UserDataManager), the search panel (TextSearch) *)
(* and the start of the application (main, AppContext).                    *)
(*                                                                         *)
(* Conventions.  Python None is the value None.  A text is a sequence of   *)
(* characters.  A handle (tokenizer, session) is TRUE when the object is   *)
(* held and FALSE when the attribute is None.  A Python dict is a          *)
(* sequence of [k, v] entries in insertion order.  The result of the last  *)
(* call is kept in ret: what was called, how it ended and what it gave.    *)
(***************************************************************************)
EXTENDS Integers, Sequences, FiniteSets, TLC

VARIABLES
    modelFiles,   \* names of the files present in the model directory
    configDoc,    \* content of the file model_info
    corrupt,      \* asset files that exist but cannot be loaded
    embed,        \* the EmbedManager instance
    dbFiles,      \* names of the files present in the database directory
    table,        \* rows of table answerembed in answersembed.db
    data,         \* the DataManager instance
    ret,          \* outcome of the last call
    failed_once,  \* history: some check_files call has returned False
    ui,           \* the TextSearch panel
    app,          \* main(): the AppContext it builds and what it has shown
    selection,    \* the SelectionManager instance
    user          \* the UserDataManager instance and its two databases

vars == <<modelFiles, configDoc, corrupt, embed, dbFiles, table, data, ret, failed_once,
          ui, app, selection, user>>

None == "<None>"

(***************************************************************************)
(* Bounds                                                                  *)
(***************************************************************************)
MaxRows == 2      \* rows of the answer table, record store
MaxDocs == 3      \* rows of the answer table, ranking
MaxTopK == 2      \* largest explicit top_k
MaxHidden == 2    \* largest hidden_size a configuration document names

(***************************************************************************)
(* Helpers on sequences                                                    *)
(***************************************************************************)
Range(s) == {s[i] : i \in 1..Len(s)}

\* the sub-sequence of s whose elements are in S, order kept
Filter(s, S) == SelectSeq(s, LAMBDA x : x \in S)

\* Python s[:n] for n >= 0
Take(s, n) == IF n >= Len(s) THEN s ELSE SubSeq(s, 1, n)

(***************************************************************************)
(* Outcome of a call                                                       *)
(***************************************************************************)
NoVec == [v |-> <<>>, d2 |-> 1]

\* op: the call; vec: the embedding get_embedding returned, or the one of
\* the query in a search_similarity that returned;
\* kind: "None", "True", "False", "list", "vec" or "raise";
\* infer: "fail" when tokenization or inference raised inside the call,
\* "ok" when it ran, "no" when it was not reached; prev_fail: the call
\* before this one had infer = "fail"; was_loaded: the engine held its
\* tokenizer and session when the call began.
Ret(op, kind) ==
    [op |-> op, kind |-> kind, list |-> <<>>, vec |-> NoVec,
     missing |-> <<>>, exc |-> None, dialog |-> FALSE, arg |-> <<>>,
     top_k |-> <<>>, infer |-> "no", prev_fail |-> FALSE, was_loaded |-> FALSE]

(***************************************************************************)
(* EmbedManager                                                            *)
(***************************************************************************)
ModelFileNames == <<"model.onnx", "tokenizer.json", "model_info">>

required_keys ==
    <<"model_name", "license", "hidden_size", "max_length", "output_name", "use_pooling">>

\* A configuration document: text that is not JSON ("invalid"), a JSON
\* object with the given keys, or a JSON array with the given elements.
Doc(kind, keys, hs) == [kind |-> kind, keys |-> keys, hidden_size |-> hs]

\* EmbedManager.__init__
EmbedInit ==
    [tokenizer |-> FALSE, session |-> FALSE, model_config |-> Doc("object", {}, 0),
     hidden_size |-> 0, is_valid_at_startup |-> FALSE, top_k |-> 20]

\* _load_config with "use_pooling" left out of the required keys
load_config_lax(e, files, doc) ==
    IF "model_info" \notin files THEN [e |-> e, ok |-> FALSE]
    ELSE IF doc.kind = "invalid" THEN [e |-> e, ok |-> FALSE]
    ELSE
      LET e1 == [e EXCEPT !.model_config = doc]
          missing_keys == Filter(required_keys,
                                 (Range(required_keys) \ {"use_pooling"}) \ doc.keys)
      IN  IF missing_keys # <<>> THEN [e |-> e1, ok |-> FALSE]
          ELSE IF doc.kind # "object" THEN [e |-> e1, ok |-> FALSE]
          ELSE [e |-> [e1 EXCEPT !.hidden_size = doc.hidden_size], ok |-> TRUE]

\* EmbedManager._load_config
load_config(e, files, doc) ==
    IF "model_info" \notin files THEN [e |-> e, ok |-> FALSE]
    ELSE IF doc.kind = "invalid" THEN [e |-> e, ok |-> FALSE]
    ELSE
      LET e1 == [e EXCEPT !.model_config = doc]
          missing_keys == Filter(required_keys, Range(required_keys) \ doc.keys)
      IN  IF missing_keys # <<>> THEN [e |-> e1, ok |-> FALSE]
          ELSE IF doc.kind # "object" THEN [e |-> e1, ok |-> FALSE]
          ELSE [e |-> [e1 EXCEPT !.hidden_size = doc.hidden_size], ok |-> TRUE]

\* EmbedManager.check_files
check_files(e, files, doc) ==
    LET missing == Filter(ModelFileNames, Range(ModelFileNames) \ files)
    IN  IF missing # <<>>
        THEN [e |-> [e EXCEPT !.is_valid_at_startup = FALSE], ok |-> FALSE]
        ELSE LET lc == load_config(e, files, doc)
             IN  IF ~lc.ok
                 THEN [e |-> [lc.e EXCEPT !.is_valid_at_startup = FALSE], ok |-> FALSE]
                 ELSE [e |-> [lc.e EXCEPT !.is_valid_at_startup = TRUE], ok |-> TRUE]

\* load_model without the lock-out test at its head: it checks the files
\* on every call
load_model_recheck(e, files, doc, corr) ==
    LET cf == check_files(e, files, doc)
    IN  IF ~cf.ok THEN [e |-> cf.e, ok |-> FALSE, dialog |-> TRUE]
        ELSE IF "tokenizer.json" \in corr
             THEN [e |-> cf.e, ok |-> FALSE, dialog |-> TRUE]
        ELSE IF "model.onnx" \in corr
             THEN [e |-> [cf.e EXCEPT !.tokenizer = TRUE], ok |-> FALSE, dialog |-> TRUE]
        ELSE [e |-> [cf.e EXCEPT !.tokenizer = TRUE, !.session = TRUE],
              ok |-> TRUE, dialog |-> FALSE]

\* EmbedManager.load_model
load_model(e, files, doc, corr) ==
    IF ~e.is_valid_at_startup THEN [e |-> e, ok |-> FALSE, dialog |-> TRUE]
    ELSE
      LET cf == check_files(e, files, doc)
      IN  IF ~cf.ok THEN [e |-> cf.e, ok |-> FALSE, dialog |-> TRUE]
          ELSE IF "tokenizer.json" \in corr
               THEN [e |-> cf.e, ok |-> FALSE, dialog |-> TRUE]
          ELSE IF "model.onnx" \in corr
               THEN [e |-> [cf.e EXCEPT !.tokenizer = TRUE], ok |-> FALSE, dialog |-> TRUE]
          ELSE [e |-> [cf.e EXCEPT !.tokenizer = TRUE, !.session = TRUE],
                ok |-> TRUE, dialog |-> FALSE]

\* unload_model clearing the validity flag with the handles
unload_model_invalidate(e) ==
    [e EXCEPT !.tokenizer = FALSE, !.session = FALSE, !.is_valid_at_startup = FALSE]

\* EmbedManager.unload_model
unload_model(e) == [e EXCEPT !.tokenizer = FALSE, !.session = FALSE]

(***************************************************************************)
(* Vectors.  A float vector is kept exactly, as integer components v       *)
(* divided by the square root of d2.                                       *)
(***************************************************************************)
RECURSIVE Dot(_, _)
Dot(a, b) == IF a = <<>> THEN 0 ELSE Head(a) * Head(b) + Dot(Tail(a), Tail(b))

NormSq(a) == Dot(a, a)

RECURSIVE Gcd(_, _)
Gcd(a, b) == IF b = 0 THEN a ELSE Gcd(b, a % b)

\* the vector divided by twice its norm
l2_normalize_half(x) ==
    IF NormSq(x.v) > 0 THEN [v |-> x.v, d2 |-> 4 * NormSq(x.v)] ELSE x

\* L2 normalization at the end of get_embedding, on the vector x.v divided
\* by the square root of x.d2: its norm is the square root of
\* NormSq(x.v) / x.d2, and x divided by it is x.v over the square root of
\* NormSq(x.v)
l2_normalize(x) ==
    IF NormSq(x.v) > 0 THEN [v |-> x.v, d2 |-> NormSq(x.v)] ELSE x

\* get_embedding dropping the handles when tokenization or inference fails
get_embedding_drop(e, text, files, doc, corr, infer) ==
    IF text = <<>> THEN [e |-> e, kind |-> "None", vec |-> NoVec, dialog |-> FALSE]
    ELSE
      LET lm == IF ~e.session \/ ~e.tokenizer
                THEN load_model(e, files, doc, corr)
                ELSE [e |-> e, ok |-> TRUE, dialog |-> FALSE]
      IN  IF ~lm.ok THEN [e |-> lm.e, kind |-> "None", vec |-> NoVec, dialog |-> lm.dialog]
          ELSE IF ~infer.ok
               THEN [e |-> unload_model(lm.e), kind |-> "None", vec |-> NoVec,
                     dialog |-> FALSE]
          ELSE [e |-> lm.e, kind |-> "vec", dialog |-> FALSE,
                vec |-> l2_normalize([v |-> infer.raw, d2 |-> 1])]

\* get_embedding without the load at its head: None when not loaded
get_embedding_no_load(e, text, files, doc, corr, infer) ==
    IF text = <<>> THEN [e |-> e, kind |-> "None", vec |-> NoVec, dialog |-> FALSE]
    ELSE IF ~e.session \/ ~e.tokenizer
         THEN [e |-> e, kind |-> "None", vec |-> NoVec, dialog |-> FALSE]
    ELSE IF ~infer.ok
         THEN [e |-> e, kind |-> "None", vec |-> NoVec, dialog |-> FALSE]
    ELSE [e |-> e, kind |-> "vec", dialog |-> FALSE,
          vec |-> l2_normalize([v |-> infer.raw, d2 |-> 1])]

\* get_embedding loading the model before it looks at the text
get_embedding_load_first(e, text, files, doc, corr, infer) ==
    LET lm == IF ~e.session \/ ~e.tokenizer
              THEN load_model(e, files, doc, corr)
              ELSE [e |-> e, ok |-> TRUE, dialog |-> FALSE]
    IN  IF ~lm.ok THEN [e |-> lm.e, kind |-> "None", vec |-> NoVec, dialog |-> lm.dialog]
        ELSE IF text = <<>> \/ ~infer.ok
             THEN [e |-> lm.e, kind |-> "None", vec |-> NoVec, dialog |-> FALSE]
        ELSE [e |-> lm.e, kind |-> "vec", dialog |-> FALSE,
              vec |-> l2_normalize([v |-> infer.raw, d2 |-> 1])]

\* EmbedManager.get_embedding.  infer is what tokenization and inference do
\* on this call: fail (ok = FALSE) or give the sentence embedding raw.
get_embedding(e, text, files, doc, corr, infer) ==
    IF text = <<>> THEN [e |-> e, kind |-> "None", vec |-> NoVec, dialog |-> FALSE]
    ELSE
      LET lm == IF ~e.session \/ ~e.tokenizer
                THEN load_model(e, files, doc, corr)
                ELSE [e |-> e, ok |-> TRUE, dialog |-> FALSE]
      IN  IF ~lm.ok THEN [e |-> lm.e, kind |-> "None", vec |-> NoVec, dialog |-> lm.dialog]
          ELSE IF ~infer.ok
               THEN [e |-> lm.e, kind |-> "None", vec |-> NoVec, dialog |-> FALSE]
          ELSE [e |-> lm.e, kind |-> "vec", dialog |-> FALSE,
                vec |-> l2_normalize([v |-> infer.raw, d2 |-> 1])]

(***************************************************************************)
(* Values a JSON text parses to.  t is the Python type; v holds the        *)
(* numbers of a list, the number itself, or one entry per character of a   *)
(* string, per key of an object, per element of a list with a non-number.  *)
(***************************************************************************)
JVal(t, v) == [t |-> t, v |-> v]

\* Python truth value
Truthy(j) ==
    CASE j.t = "None" -> FALSE
      [] j.t \in {"int", "bool"} -> j.v[1] # 0
      [] OTHER -> Len(j.v) > 0

(***************************************************************************)
(* Scores.  The cosine dot / (|q| |d|) is kept exactly as its sign s and   *)
(* its square n / d in lowest terms.                                       *)
(***************************************************************************)
\* the dot product taken as the score, not divided by the norms
ScoreDotOnly(dot, nq2, nd2) ==
    IF dot = 0 THEN [s |-> 0, n |-> 0, d |-> 1]
    ELSE [s |-> IF dot > 0 THEN 1 ELSE -1, n |-> dot * dot, d |-> 1]

Score(dot, nq2, nd2) ==
    IF dot = 0 THEN [s |-> 0, n |-> 0, d |-> 1]
    ELSE LET g == Gcd(dot * dot, nq2 * nd2)
         IN  [s |-> IF dot > 0 THEN 1 ELSE -1, n |-> (dot * dot) \div g, d |-> (nq2 * nd2) \div g]

ZeroScore == [s |-> 0, n |-> 0, d |-> 1]

ScoreLT(a, b) ==
    IF a.s # b.s THEN a.s < b.s
    ELSE IF a.s = 0 THEN FALSE
    ELSE IF a.s = 1 THEN a.n * b.d < b.n * a.d
    ELSE a.n * b.d > b.n * a.d

\* a descending sort that puts an element before the ones it ties with
InsertDescBeforeTies(sorted, x) ==
    LET before == {i \in 1..Len(sorted) : ScoreLT(x.score, sorted[i].score)}
        k == IF before = {} THEN 0 ELSE CHOOSE i \in before : \A j \in before : j <= i
    IN  SubSeq(sorted, 1, k) \o <<x>> \o SubSeq(sorted, k + 1, Len(sorted))

\* list.sort(key=score, reverse=True): descending and stable
InsertDesc(sorted, x) ==
    LET before == {i \in 1..Len(sorted) : ~ScoreLT(sorted[i].score, x.score)}
        k == IF before = {} THEN 0 ELSE CHOOSE i \in before : \A j \in before : j <= i
    IN  SubSeq(sorted, 1, k) \o <<x>> \o SubSeq(sorted, k + 1, Len(sorted))

RECURSIVE SortDesc(_)
SortDesc(s) ==
    IF s = <<>> THEN <<>>
    ELSE InsertDesc(SortDesc(SubSeq(s, 1, Len(s) - 1)), s[Len(s)])

\* result = doc.copy(); result["score"] = similarity
WithScore(rec, sc) ==
    [k \in DOMAIN rec \cup {"score"} |-> IF k = "score" THEN sc ELSE rec[k]]

\* the loop body scoring an entry without a vector as 0
ScoreDocZero(q, rec) ==
    LET j == rec.embedding
    IN  IF ~Truthy(j) THEN [kind |-> "score", exc |-> None, score |-> ZeroScore]
        ELSE IF j.t \in {"int", "bool", "dict"}
             THEN [kind |-> "raise", exc |-> "TypeError", score |-> ZeroScore]
        ELSE IF j.t \in {"str", "mixed"}
             THEN [kind |-> "raise", exc |-> "ValueError", score |-> ZeroScore]
        ELSE IF NormSq(q.v) > 0 /\ NormSq(j.v) > 0
             THEN IF Len(q.v) # Len(j.v)
                  THEN [kind |-> "raise", exc |-> "ValueError", score |-> ZeroScore]
                  ELSE [kind |-> "score", exc |-> None,
                        score |-> Score(Dot(q.v, j.v), NormSq(q.v), NormSq(j.v))]
        ELSE [kind |-> "score", exc |-> None, score |-> ZeroScore]

\* One pass of the loop body of search_similarity over doc, for the query
\* embedding q: "skip", "raise" or "score".
ScoreDoc(q, rec) ==
    LET j == rec.embedding
    IN  IF ~Truthy(j) THEN [kind |-> "skip", exc |-> None, score |-> ZeroScore]
        ELSE IF j.t \in {"int", "bool"}
             THEN [kind |-> "raise", exc |-> "TypeError", score |-> ZeroScore]
        ELSE IF j.t = "dict"
             THEN [kind |-> "raise", exc |-> "TypeError", score |-> ZeroScore]
        ELSE IF j.t \in {"str", "mixed"}
             THEN [kind |-> "raise", exc |-> "ValueError", score |-> ZeroScore]
        ELSE IF NormSq(q.v) > 0 /\ NormSq(j.v) > 0
             THEN IF Len(q.v) # Len(j.v)
                  THEN [kind |-> "raise", exc |-> "ValueError", score |-> ZeroScore]
                  ELSE [kind |-> "score", exc |-> None,
                        score |-> Score(Dot(q.v, j.v), NormSq(q.v), NormSq(j.v))]
        ELSE [kind |-> "score", exc |-> None, score |-> ZeroScore]

\* the scored document written where the loop reads it, not on a copy
AfterScoringInPlace(rec, sc) == WithScore(rec, sc)

\* The document the caller passed in, after one pass of the loop has scored
\* it: the score goes on doc.copy(), the document itself is as it was.
AfterScoring(rec, sc) == rec

\* The loop of search_similarity from the given documents on, results
\* holding what is appended so far and seen the documents already visited:
\* the results in corpus order, or the first exception raised; docs is
\* the caller's list as the loop leaves it.
RECURSIVE ScoreAll(_, _, _, _)
ScoreAll(q, documents, results, seen) ==
    IF documents = <<>>
    THEN [kind |-> "list", exc |-> None, list |-> results, docs |-> seen]
    ELSE LET sd == ScoreDoc(q, Head(documents))
         IN  IF sd.kind = "raise"
             THEN [kind |-> "raise", exc |-> sd.exc, list |-> <<>>,
                   docs |-> seen \o documents]
             ELSE IF sd.kind = "skip"
                  THEN ScoreAll(q, Tail(documents), results, Append(seen, Head(documents)))
                  ELSE ScoreAll(q, Tail(documents),
                                Append(results, WithScore(Head(documents), sd.score)),
                                Append(seen, AfterScoring(Head(documents), sd.score)))

\* EmbedManager.search_similarity.  top_k is <<>> for None, <<n>> for n.
\* docs is the list the caller passed in, as the call leaves it.
search_similarity(e, query, documents, top_k, files, doc, corr, infer) ==
    LET k == IF top_k = <<>> THEN e.top_k ELSE top_k[1]
    IN  IF query = <<>> \/ documents = <<>>
        THEN [e |-> e, kind |-> "list", exc |-> None, list |-> <<>>, dialog |-> FALSE,
              docs |-> documents]
        ELSE
          LET ge == get_embedding(e, query, files, doc, corr, infer)
          IN  IF ge.kind = "None"
              THEN [e |-> ge.e, kind |-> "list", exc |-> None, list |-> <<>>,
                    dialog |-> ge.dialog, docs |-> documents]
              ELSE LET sa == ScoreAll(ge.vec, documents, <<>>, <<>>)
                   IN  IF sa.kind = "raise"
                       THEN [e |-> ge.e, kind |-> "raise", exc |-> sa.exc, list |-> <<>>,
                             dialog |-> ge.dialog, docs |-> sa.docs]
                       ELSE [e |-> ge.e, kind |-> "list", exc |-> None,
                             list |-> Take(SortDesc(sa.list), k), dialog |-> ge.dialog,
                             docs |-> sa.docs]

(***************************************************************************)
(* Python dicts, in insertion order                                        *)
(***************************************************************************)
DictKeys(d) == [i \in 1..Len(d) |-> d[i].k]

DictHas(d, k) == \E i \in 1..Len(d) : d[i].k = k

DictGet(d, k) == d[CHOOSE i \in 1..Len(d) : d[i].k = k].v

DictPut(d, k, v) ==
    IF DictHas(d, k)
    THEN [i \in 1..Len(d) |-> IF d[i].k = k THEN [k |-> k, v |-> v] ELSE d[i]]
    ELSE Append(d, [k |-> k, v |-> v])

(***************************************************************************)
(* DataManager                                                             *)
(***************************************************************************)
required == <<"answersembed.db", "agencies.db", "introclosing.db", "conjunctions.json">>

\* a text column holding NULL
NoneText == <<None>>

\* "x or default" replacing None only
OrStrNoneOnly(x, default) == IF x = None THEN default ELSE x

\* Python "x or default" on a string that may be None
OrStr(x, default) == IF x = None \/ x = "" THEN default ELSE x

\* Python "x or ''" on a text that may be None
OrText(x) == IF x = NoneText THEN <<>> ELSE x

\* Python "kw in text"
Contains(text, kw) ==
    \E i \in 0..(Len(text) - Len(kw)) : SubSeq(text, i + 1, i + Len(kw)) = kw

\* The other three sources, as stored
AgencyRows ==
    <<[id |-> 1, name |-> "agencyA", paid |-> 0], [id |-> 2, name |-> None, paid |-> 1]>>

IntroRows ==
    <<[id |-> 1, type |-> "intro", cat |-> "greet", text |-> "hello"],
      [id |-> 2, type |-> "closing", cat |-> "bye", text |-> "thanks"],
      [id |-> 3, type |-> "other", cat |-> "bye", text |-> "ignored"]>>

ConjunctionsJson == <<"and then", "however">>

\* DataManager.__init__
DataInit ==
    [answers |-> <<>>, agencies |-> <<>>, conjunctions |-> <<>>, intro_closing |-> <<>>,
     by_code |-> <<>>, by_id |-> <<>>, index_tree |-> <<>>,
     intro_index |-> <<[k |-> "intro", v |-> <<>>], [k |-> "closing", v |-> <<>>]>>]

\* _ensure_required_files reporting only the first missing source
ensure_first_missing(files) == Take(Filter(required, Range(required) \ files), 1)

\* DataManager._ensure_required_files: the missing list, empty when all exist
ensure_required_files(files) == Filter(required, Range(required) \ files)

\* The embedding column as stored: sql is the SQLite type of the value,
\* empty says the value is falsy in Python ('' or b'' or 0), decodes that
\* the bytes are text, parses that the text is JSON, j what it parses to.
Stored(sql, empty, decodes, parses, j) ==
    [sql |-> sql, empty |-> empty, decodes |-> decodes, parses |-> parses, j |-> j]

\* The body of the loop of _load_answers on one embedding value
parse_embedding(st) ==
    IF st.sql = "NULL" \/ st.empty THEN [kind |-> "ok", exc |-> None, j |-> JVal("list", <<>>)]
    ELSE IF st.sql \in {"INTEGER", "REAL"}
         THEN [kind |-> "raise", exc |-> "TypeError", j |-> JVal("list", <<>>)]
    ELSE IF ~st.decodes
         THEN [kind |-> "raise", exc |-> "UnicodeDecodeError", j |-> JVal("list", <<>>)]
    ELSE IF ~st.parses THEN [kind |-> "ok", exc |-> None, j |-> JVal("list", <<>>)]
    ELSE [kind |-> "ok", exc |-> None, j |-> st.j]

\* DataManager._load_answers: self.answers is rebuilt row by row, and an
\* exception leaves it holding the rows before the failing one.
RECURSIVE load_answers(_, _)
load_answers(rows, acc) ==
    IF rows = <<>> THEN [kind |-> "ok", exc |-> None, answers |-> acc]
    ELSE LET pe == parse_embedding(Head(rows).embedding)
         IN  IF pe.kind = "raise"
             THEN [kind |-> "raise", exc |-> pe.exc, answers |-> acc]
             ELSE load_answers(Tail(rows),
                               Append(acc, [Head(rows) EXCEPT !.embedding = pe.j]))

\* DataManager._load_agencies
RECURSIVE load_agencies(_, _)
load_agencies(rows, acc) ==
    IF rows = <<>> THEN acc
    ELSE load_agencies(Tail(rows),
                       IF Head(rows).name # None /\ Head(rows).name # ""
                       THEN DictPut(acc, Head(rows).name, Head(rows)) ELSE acc)

\* the loop body putting the record at the head of its bucket
AddToTreeFront(tree, rec) ==
    LET c1 == IF rec.cat1 = None \/ rec.cat1 = "" THEN "Unknown" ELSE rec.cat1
        c2 == IF rec.cat2 = None \/ rec.cat2 = "" THEN "Unknown" ELSE rec.cat2
        c3 == IF rec.cat3 = None \/ rec.cat3 = "" THEN "Unknown" ELSE rec.cat3
        t1 == IF DictHas(tree, c1) THEN tree ELSE DictPut(tree, c1, <<>>)
        m2 == DictGet(t1, c1)
        t2 == IF DictHas(m2, c2) THEN m2 ELSE DictPut(m2, c2, <<>>)
        m3 == DictGet(t2, c2)
        t3 == IF DictHas(m3, c3) THEN m3 ELSE DictPut(m3, c3, <<>>)
    IN  DictPut(t1, c1, DictPut(t2, c2, DictPut(t3, c3, <<rec>> \o DictGet(t3, c3))))

\* the loop body filing a record under "Unknown" at all three levels as
\* soon as one of its categories is missing
AddToTreeAllUnknown(tree, rec) ==
    LET whole == \A c \in {rec.cat1, rec.cat2, rec.cat3} : c # None /\ c # ""
        c1 == IF whole THEN rec.cat1 ELSE "Unknown"
        c2 == IF whole THEN rec.cat2 ELSE "Unknown"
        c3 == IF whole THEN rec.cat3 ELSE "Unknown"
        t1 == IF DictHas(tree, c1) THEN tree ELSE DictPut(tree, c1, <<>>)
        m2 == DictGet(t1, c1)
        t2 == IF DictHas(m2, c2) THEN m2 ELSE DictPut(m2, c2, <<>>)
        m3 == DictGet(t2, c2)
        t3 == IF DictHas(m3, c3) THEN m3 ELSE DictPut(m3, c3, <<>>)
    IN  DictPut(t1, c1, DictPut(t2, c2, DictPut(t3, c3, Append(DictGet(t3, c3), rec))))

\* The loop body of _build_indexes on index_tree
AddToTree(tree, rec) ==
    LET c1 == OrStr(rec.cat1, "Unknown")
        c2 == OrStr(rec.cat2, "Unknown")
        c3 == OrStr(rec.cat3, "Unknown")
        t1 == IF DictHas(tree, c1) THEN tree ELSE DictPut(tree, c1, <<>>)
        m2 == DictGet(t1, c1)
        t2 == IF DictHas(m2, c2) THEN m2 ELSE DictPut(m2, c2, <<>>)
        m3 == DictGet(t2, c2)
        t3 == IF DictHas(m3, c3) THEN m3 ELSE DictPut(m3, c3, <<>>)
    IN  DictPut(t1, c1, DictPut(t2, c2, DictPut(t3, c3, Append(DictGet(t3, c3), rec))))

\* The loop body of _build_indexes on intro_index
AddToIntro(idx, item) ==
    IF DictHas(idx, item.type)
    THEN LET m == DictGet(idx, item.type)
             m1 == IF DictHas(m, item.cat) THEN m ELSE DictPut(m, item.cat, <<>>)
         IN  DictPut(idx, item.type, DictPut(m1, item.cat, Append(DictGet(m1, item.cat), item)))
    ELSE idx

\* the loops of _build_indexes, one per index
RECURSIVE build_by_code(_, _)
build_by_code(acc, recs) ==
    IF recs = <<>> THEN acc
    ELSE build_by_code(IF Head(recs).code # None /\ Head(recs).code # ""
                       THEN DictPut(acc, Head(recs).code, Head(recs)) ELSE acc,
                       Tail(recs))

RECURSIVE build_by_id(_, _)
build_by_id(acc, recs) ==
    IF recs = <<>> THEN acc
    ELSE build_by_id(DictPut(acc, Head(recs).id, Head(recs)), Tail(recs))

RECURSIVE build_index_tree(_, _)
build_index_tree(acc, recs) ==
    IF recs = <<>> THEN acc ELSE build_index_tree(AddToTree(acc, Head(recs)), Tail(recs))

RECURSIVE build_intro_index(_, _)
build_intro_index(acc, items) ==
    IF items = <<>> THEN acc ELSE build_intro_index(AddToIntro(acc, Head(items)), Tail(items))

\* DataManager._build_indexes
build_indexes(d) ==
    [d EXCEPT
       !.by_code = build_by_code(<<>>, d.answers),
       !.by_id = build_by_id(<<>>, d.answers),
       !.index_tree = build_index_tree(<<>>, d.answers),
       !.intro_index = build_intro_index(
                           <<[k |-> "intro", v |-> <<>>], [k |-> "closing", v |-> <<>>]>>,
                           d.intro_closing)]

\* load_all clearing the containers before it looks for the files
load_all_reset(d, files, rows) ==
    LET missing == ensure_required_files(files)
        d0 == [d EXCEPT !.answers = <<>>, !.by_code = <<>>, !.by_id = <<>>,
                        !.index_tree = <<>>]
    IN  IF missing # <<>>
        THEN [d |-> d0, kind |-> "raise", exc |-> "MissingRequiredDataError",
              missing |-> missing]
        ELSE
          LET la == load_answers(rows, <<>>)
          IN  IF la.kind = "raise"
              THEN [d |-> [d0 EXCEPT !.answers = la.answers], kind |-> "raise",
                    exc |-> la.exc, missing |-> <<>>]
              ELSE [d |-> build_indexes([d0 EXCEPT !.answers = la.answers,
                                                   !.agencies = load_agencies(AgencyRows, <<>>),
                                                   !.intro_closing = IntroRows,
                                                   !.conjunctions = ConjunctionsJson]),
                    kind |-> "None", exc |-> None, missing |-> <<>>]

\* DataManager.load_all
load_all(d, files, rows) ==
    LET missing == ensure_required_files(files)
    IN  IF missing # <<>>
        THEN [d |-> d, kind |-> "raise", exc |-> "MissingRequiredDataError", missing |-> missing]
        ELSE
          LET la == load_answers(rows, <<>>)
          IN  IF la.kind = "raise"
              THEN [d |-> [d EXCEPT !.answers = la.answers], kind |-> "raise",
                    exc |-> la.exc, missing |-> <<>>]
              ELSE [d |-> build_indexes([d EXCEPT !.answers = la.answers,
                                                  !.agencies = load_agencies(AgencyRows, <<>>),
                                                  !.intro_closing = IntroRows,
                                                  !.conjunctions = ConjunctionsJson]),
                    kind |-> "None", exc |-> None, missing |-> <<>>]

\* DataManager.get_all_answers
get_all_answers(d) == d.answers

\* search_answers looking at the title only
search_answers_title_only(d, keyword) ==
    IF keyword = <<>> THEN <<>>
    ELSE SelectSeq(d.answers, LAMBDA rec : Contains(OrText(rec.title), keyword))

\* DataManager.search_answers
search_answers(d, keyword) ==
    IF keyword = <<>> THEN <<>>
    ELSE SelectSeq(d.answers,
                   LAMBDA rec : Contains(OrText(rec.title), keyword)
                                \/ Contains(OrText(rec.maintext), keyword))

\* DataManager.get_cat1_list
get_cat1_list(d) == DictKeys(d.index_tree)

\* DataManager.get_cat2_list
get_cat2_list(d, cat1) ==
    IF DictHas(d.index_tree, cat1) THEN DictKeys(DictGet(d.index_tree, cat1)) ELSE <<>>

\* DataManager.get_cat3_list
get_cat3_list(d, cat2, cat1) ==
    IF DictHas(d.index_tree, cat1)
    THEN IF DictHas(DictGet(d.index_tree, cat1), cat2)
         THEN DictKeys(DictGet(DictGet(d.index_tree, cat1), cat2))
         ELSE <<>>
    ELSE <<>>

\* get_answers_in_cat3 without its except clause: the KeyError of the
\* subscript reaches the caller
get_answers_in_cat3_unguarded(d, cat2, cat3, cat1) ==
    IF DictHas(d.index_tree, cat1)
    THEN IF DictHas(DictGet(d.index_tree, cat1), cat2)
            /\ DictHas(DictGet(DictGet(d.index_tree, cat1), cat2), cat3)
         THEN [kind |-> "list", exc |-> None,
               list |-> DictGet(DictGet(DictGet(d.index_tree, cat1), cat2), cat3)]
         ELSE [kind |-> "raise", exc |-> "KeyError", list |-> <<>>]
    ELSE [kind |-> "list", exc |-> None, list |-> <<>>]

\* DataManager.get_answers_in_cat3: kind is "list" when it returns and
\* "raise" when an exception leaves it
get_answers_in_cat3(d, cat2, cat3, cat1) ==
    IF DictHas(d.index_tree, cat1)
    THEN IF DictHas(DictGet(d.index_tree, cat1), cat2)
            /\ DictHas(DictGet(DictGet(d.index_tree, cat1), cat2), cat3)
         THEN [kind |-> "list", exc |-> None,
               list |-> DictGet(DictGet(DictGet(d.index_tree, cat1), cat2), cat3)]
         ELSE [kind |-> "list", exc |-> None, list |-> <<>>]
    ELSE [kind |-> "list", exc |-> None, list |-> <<>>]

\* DataManager.get_answer_by_code: <<>> for None, <<rec>> for a record
get_answer_by_code(d, code) ==
    IF DictHas(d.by_code, code) THEN <<DictGet(d.by_code, code)>> ELSE <<>>

\* DataManager.get_answer_by_id
get_answer_by_id(d, ans_id) ==
    IF DictHas(d.by_id, ans_id) THEN <<DictGet(d.by_id, ans_id)>> ELSE <<>>

(***************************************************************************)
(* SelectionManager: the three slots and the observers.  A slot is <<>>    *)
(* when it holds None and <<data>> when it holds the dict data.  An        *)
(* observer is a callback that reads the slot it is told about, as the     *)
(* AnswerBuilder panel does; the calls made during one operation are kept, *)
(* in order, with what each callback read.                                 *)
(***************************************************************************)
SelectionInit == [slots |-> [S1 |-> <<>>, S2 |-> <<>>, S3 |-> <<>>], observers |-> <<>>]

\* SelectionManager.add_observer
add_observer(sel, callback) ==
    IF callback \notin Range(sel.observers)
    THEN [sel EXCEPT !.observers = Append(@, callback)]
    ELSE sel

\* SelectionManager.get_slot: dict.get, None for a name that is no slot
get_slot(sel, slot_name) ==
    IF slot_name \in DOMAIN sel.slots THEN sel.slots[slot_name] ELSE <<>>

\* SelectionManager._notify_observers: one call per registered callback,
\* in registration order; seen is what the callback reads with get_slot
notify_observers(sel, slot_name) ==
    [i \in 1..Len(sel.observers) |->
        [callback |-> sel.observers[i], slot |-> slot_name, seen |-> get_slot(sel, slot_name)]]

\* set_slot storing under any name it is given
set_slot_any_name(sel, slot_name, slot_data) ==
    LET stored == [sel EXCEPT !.slots =
                      [k \in DOMAIN sel.slots \cup {slot_name} |->
                          IF k = slot_name THEN <<slot_data>> ELSE sel.slots[k]]]
    IN  [sel |-> stored, ok |-> TRUE, calls |-> notify_observers(stored, slot_name)]

\* SelectionManager.set_slot
set_slot(sel, slot_name, slot_data) ==
    IF slot_name \in DOMAIN sel.slots
    THEN LET stored == [sel EXCEPT !.slots[slot_name] = <<slot_data>>]
         IN  [sel |-> stored, ok |-> TRUE, calls |-> notify_observers(stored, slot_name)]
    ELSE [sel |-> sel, ok |-> FALSE, calls |-> <<>>]

\* SelectionManager.clear_slot
clear_slot(sel, slot_name) ==
    IF slot_name \in DOMAIN sel.slots
    THEN LET stored == [sel EXCEPT !.slots[slot_name] = <<>>]
         IN  [sel |-> stored, calls |-> notify_observers(stored, slot_name)]
    ELSE [sel |-> sel, calls |-> <<>>]

\* clear_all notifying before it empties the slot
clear_all_notify_first(sel) ==
    LET s1 == [sel EXCEPT !.slots["S1"] = <<>>]
        s2 == [s1 EXCEPT !.slots["S2"] = <<>>]
        s3 == [s2 EXCEPT !.slots["S3"] = <<>>]
    IN  [sel |-> s3,
         calls |-> notify_observers(sel, "S1") \o notify_observers(s1, "S2")
                   \o notify_observers(s2, "S3")]

\* SelectionManager.clear_all: the keys in the order of the dict, each
\* emptied and then announced before the next one is touched
clear_all(sel) ==
    LET s1 == [sel EXCEPT !.slots["S1"] = <<>>]
        s2 == [s1 EXCEPT !.slots["S2"] = <<>>]
        s3 == [s2 EXCEPT !.slots["S3"] = <<>>]
    IN  [sel |-> s3,
         calls |-> notify_observers(s1, "S1") \o notify_observers(s2, "S2")
                   \o notify_observers(s3, "S3")]

(***************************************************************************)
(* UserDataManager: the memos of usermemos.db, a dict from answer_id to    *)
(* the memo text.  The column modified holds the wall-clock time of the    *)
(* write and is left out.                                                  *)
(***************************************************************************)
UserInit == [answer_memos |-> <<>>]

\* str.replace("\r\n", "\n") on a text whose characters are "CR", "LF"
\* and letters
RECURSIVE ReplaceCRLF(_)
ReplaceCRLF(t) ==
    IF Len(t) < 2 THEN t
    ELSE IF t[1] = "CR" /\ t[2] = "LF"
         THEN <<"LF">> \o ReplaceCRLF(SubSeq(t, 3, Len(t)))
         ELSE <<t[1]>> \o ReplaceCRLF(Tail(t))

\* UserDataManager.save_answer_memo
save_answer_memo(u, answer_id, memo) ==
    [u EXCEPT !.answer_memos =
        DictPut(u.answer_memos, answer_id, IF memo # <<>> THEN ReplaceCRLF(memo) ELSE memo)]

\* UserDataManager.delete_answer_memo
delete_answer_memo(u, answer_id) ==
    [u EXCEPT !.answer_memos = SelectSeq(u.answer_memos, LAMBDA en : en.k # answer_id)]

(***************************************************************************)
(* The TextSearch panel: the result list behind the table and the mode     *)
(* radio button.                                                           *)
(***************************************************************************)
UiInit == [current_answers |-> <<>>, keyword_radio |-> TRUE]

\* str.strip() on a text whose only whitespace character is " "
RECURSIVE Strip(_)
Strip(t) ==
    IF t = <<>> THEN t
    ELSE IF Head(t) = " " THEN Strip(Tail(t))
    ELSE IF t[Len(t)] = " " THEN Strip(SubSeq(t, 1, Len(t) - 1))
    ELSE t

\* TextSearch._update_table
update_table(u, answers) == [u EXCEPT !.current_answers = answers]


\* TextSearch._on_search_clicked on the text of the search field.  kind is
\* "None" when the handler returns and "raise" when an exception leaves it;
\* docs is the list of stored records as the handler leaves it.
on_search_clicked(u, e, d, input, files, doc, corr, infer) ==
    LET query == Strip(input)
        quiet == [u |-> u, e |-> e, docs |-> d.answers, kind |-> "None", exc |-> None,
                  dialog |-> FALSE, query |-> query]
    IN  IF query = <<>> THEN quiet
        ELSE IF u.keyword_radio
             THEN [quiet EXCEPT !.u = update_table(u, search_answers(d, query))]
        ELSE
          LET lm == IF ~e.session
                    THEN load_model(e, files, doc, corr)
                    ELSE [e |-> e, ok |-> TRUE, dialog |-> FALSE]
          IN  IF ~lm.ok THEN [quiet EXCEPT !.e = lm.e, !.dialog = lm.dialog]
              ELSE
                LET ss == search_similarity(lm.e, query, get_all_answers(d), <<>>,
                                            files, doc, corr, infer)
                IN  IF ss.kind = "raise"
                    THEN [quiet EXCEPT !.e = ss.e, !.docs = ss.docs, !.kind = "raise",
                                       !.exc = ss.exc, !.dialog = ss.dialog]
                    ELSE [quiet EXCEPT !.u = update_table(u, ss.list), !.e = ss.e,
                                       !.docs = ss.docs, !.dialog = ss.dialog]

(***************************************************************************)
(* main(): pc is its position, init_error what AppContext keeps (<<>> for  *)
(* None, <<error>> otherwise), shown the message boxes displayed so far.   *)
(***************************************************************************)
AppInit == [pc |-> "start", init_error |-> <<>>, shown |-> <<>>]

\* AppContext.__init__ letting the exception of load_all leave it
AppContext_init_propagate(files, rows, mfiles, doc) ==
    LET la == load_all(DataInit, files, rows)
        cf == check_files(EmbedInit, mfiles, doc)
    IN  IF la.kind = "raise"
        THEN [kind |-> "raise", exc |-> la.exc, missing |-> la.missing, data |-> la.d,
              embed |-> EmbedInit, init_error |-> <<>>]
        ELSE [kind |-> "None", exc |-> None, missing |-> <<>>, data |-> la.d,
              embed |-> cf.e, init_error |-> <<>>]

\* AppContext.__init__ on the database and model directories: kind is
\* "None" when the context is constructed and "raise" when an exception
\* reaches the caller; init_error is <<>> for None and <<error>> otherwise
AppContext_init(files, rows, mfiles, doc) ==
    LET la == load_all(DataInit, files, rows)
        cf == check_files(EmbedInit, mfiles, doc)
    IN  [kind |-> "None", exc |-> None, missing |-> <<>>, data |-> la.d, embed |-> cf.e,
         init_error |-> IF la.kind = "raise"
                        THEN <<[exc |-> la.exc, missing |-> la.missing]>>
                        ELSE <<>>]

\* show_startup_checks of main: the message box it shows, which one and
\* the file names it lists, and whether the application exits
show_startup_checks(init_error, has_model) ==
    IF init_error # <<>>
    THEN [box |-> IF init_error[1].exc = "MissingRequiredDataError"
                  THEN [box |-> "missing_data", missing |-> init_error[1].missing]
                  ELSE [box |-> "init_failed", missing |-> <<>>],
          exit |-> TRUE]
    ELSE [box |-> [box |-> IF has_model THEN "welcome" ELSE "welcome_no_model",
                   missing |-> <<>>],
          exit |-> FALSE]

OtherInit ==
    /\ ui = UiInit
    /\ app = AppInit
    /\ selection = SelectionInit
    /\ user = UserInit

(***************************************************************************)
(* Inputs                                                                  *)
(***************************************************************************)
AssetNames == {"model.onnx", "tokenizer.json"}

ExtraKey == "comment"

ConfigDocs ==
    {Doc("invalid", {}, 0), Doc("array", Range(required_keys), 0), Doc("object", {}, 0)}
    \cup {Doc("object", Range(required_keys) \ {k}, IF k = "hidden_size" THEN 0 ELSE MaxHidden) :
            k \in Range(required_keys)}
    \cup {Doc("object", Range(required_keys), h) : h \in 2..MaxHidden}
    \cup {Doc("object", Range(required_keys) \cup {ExtraKey}, MaxHidden),
          Doc("object", (Range(required_keys) \ {"hidden_size"}) \cup {ExtraKey}, 0)}

GoodDoc == Doc("object", Range(required_keys), 2)

Queries == {<<>>, <<"a">>}

Inferences ==
    {[ok |-> FALSE, raw |-> <<>>]}
    \cup {[ok |-> TRUE, raw |-> r] : r \in {<<1, 0>>, <<0, 1>>, <<1, 1>>, <<0, 0>>}}

TopKs == {<<>>} \cup {<<n>> : n \in 0..MaxTopK}

(***************************************************************************)
(* Steps of the environment: the files of the model directory              *)
(***************************************************************************)
EnvRet == Ret("env", "None")

AddFile(f) ==
    /\ f \notin modelFiles
    /\ modelFiles' = modelFiles \cup {f}
    /\ ret' = EnvRet
    /\ UNCHANGED <<configDoc, corrupt, embed, dbFiles, table, data, failed_once, ui, app,
                 selection, user>>

RemoveFile(f) ==
    /\ f \in modelFiles
    /\ modelFiles' = modelFiles \ {f}
    /\ ret' = EnvRet
    /\ UNCHANGED <<configDoc, corrupt, embed, dbFiles, table, data, failed_once, ui, app,
                 selection, user>>

WriteConfig(doc) ==
    /\ doc # configDoc
    /\ configDoc' = doc
    /\ ret' = EnvRet
    /\ UNCHANGED <<modelFiles, corrupt, embed, dbFiles, table, data, failed_once, ui, app,
                 selection, user>>

SetCorrupt(c) ==
    /\ c # corrupt
    /\ corrupt' = c
    /\ ret' = EnvRet
    /\ UNCHANGED <<modelFiles, configDoc, embed, dbFiles, table, data, failed_once, ui, app,
                 selection, user>>

(***************************************************************************)
(* Calls on the EmbedManager.  The outcome of a call is bound once and     *)
(* then stored in the instance and in ret.                                 *)
(***************************************************************************)
\* the engine holds its tokenizer and its session
Loaded(e) == e.session /\ e.tokenizer

\* a check_files call inside load_model has failed: the flag was set, the
\* call went past the lock-out test, and the flag is now cleared
CheckFailedIn(e, e1) == e.is_valid_at_startup /\ ~e1.is_valid_at_startup

CheckFiles ==
    \E cf \in {check_files(embed, modelFiles, configDoc)} :
        /\ embed' = cf.e
        /\ ret' = Ret("check_files", IF cf.ok THEN "True" ELSE "False")
        /\ failed_once' = (failed_once \/ ~cf.ok)
        /\ UNCHANGED <<modelFiles, configDoc, corrupt, dbFiles, table, data, ui, app,
                 selection, user>>

LoadModel ==
    \E lm \in {load_model(embed, modelFiles, configDoc, corrupt)} :
        /\ embed' = lm.e
        /\ ret' = [Ret("load_model", IF lm.ok THEN "True" ELSE "False")
                      EXCEPT !.dialog = lm.dialog, !.was_loaded = Loaded(embed)]
        /\ failed_once' = (failed_once \/ CheckFailedIn(embed, lm.e))
        /\ UNCHANGED <<modelFiles, configDoc, corrupt, dbFiles, table, data, ui, app,
                 selection, user>>

UnloadModel ==
    /\ embed' = unload_model(embed)
    /\ ret' = [Ret("unload_model", "None") EXCEPT !.was_loaded = Loaded(embed)]
    /\ UNCHANGED <<modelFiles, configDoc, corrupt, dbFiles, table, data, failed_once, ui, app,
                 selection, user>>

\* tokenization and inference are reached when the text is not empty and
\* the engine is loaded, or the lazy load at the head of get_embedding
\* succeeds
InferReached(text) ==
    /\ text # <<>>
    /\ \/ embed.session /\ embed.tokenizer
       \/ load_model(embed, modelFiles, configDoc, corrupt).ok

GetEmbedding(text, infer) ==
    \E ge \in {get_embedding(embed, text, modelFiles, configDoc, corrupt, infer)},
       reached \in {InferReached(text)} :
        /\ embed' = ge.e
        /\ ret' = [Ret("get_embedding", ge.kind)
                      EXCEPT !.vec = ge.vec, !.dialog = ge.dialog, !.arg = text,
                             !.infer = IF ~reached THEN "no"
                                       ELSE IF infer.ok THEN "ok" ELSE "fail",
                             !.prev_fail = (ret.infer = "fail"),
                             !.was_loaded = Loaded(embed)]
        /\ failed_once' = (failed_once \/ CheckFailedIn(embed, ge.e))
        /\ UNCHANGED <<modelFiles, configDoc, corrupt, dbFiles, table, data, ui, app,
                 selection, user>>

SearchSimilarity(query, top_k, infer) ==
    \E ss \in {search_similarity(embed, query, get_all_answers(data), top_k,
                                modelFiles, configDoc, corrupt, infer)},
       reached \in {get_all_answers(data) # <<>> /\ InferReached(query)} :
        /\ embed' = ss.e
        /\ ret' = [Ret("search_similarity", ss.kind)
                      EXCEPT !.list = ss.list, !.exc = ss.exc, !.dialog = ss.dialog,
                             !.arg = query, !.top_k = top_k,
                             !.vec = IF reached /\ infer.ok /\ ss.kind = "list"
                                     THEN l2_normalize([v |-> infer.raw, d2 |-> 1]) ELSE NoVec,
                             !.infer = IF ~reached THEN "no"
                                       ELSE IF infer.ok THEN "ok" ELSE "fail",
                             !.prev_fail = (ret.infer = "fail")]
        /\ failed_once' = (failed_once \/ CheckFailedIn(embed, ss.e))
        /\ data' = [data EXCEPT !.answers = ss.docs]
        /\ UNCHANGED <<modelFiles, configDoc, corrupt, dbFiles, table, ui, app,
                       selection, user>>

(***************************************************************************)
(* The embedding engine on its own, from a fresh EmbedManager              *)
(***************************************************************************)
InitEmbed ==
    /\ modelFiles \in SUBSET Range(ModelFileNames)
    /\ configDoc \in ConfigDocs
    /\ corrupt \in SUBSET AssetNames
    /\ embed = EmbedInit
    /\ dbFiles = Range(required)
    /\ table = <<>>
    /\ data = DataInit
    /\ ret = Ret("init", "None")
    /\ failed_once = FALSE
    /\ OtherInit

NextEmbed ==
    \/ \E f \in Range(ModelFileNames) : AddFile(f)
    \/ \E f \in Range(ModelFileNames) : RemoveFile(f)
    \/ \E doc \in ConfigDocs : WriteConfig(doc)
    \/ \E c \in SUBSET AssetNames : SetCorrupt(c)
    \/ CheckFiles
    \/ LoadModel
    \/ UnloadModel
    \/ \E text \in Queries, infer \in Inferences : GetEmbedding(text, infer)

SpecEmbed == InitEmbed /\ [][NextEmbed]_vars

(***************************************************************************)
(* Properties of the embedding engine                                      *)
(***************************************************************************)
AllModelFiles == Range(ModelFileNames) \subseteq modelFiles

\* C1: once a check_files call has failed, no later step (assets appearing,
\* check_files retried, load_model, get_embedding) validates the engine
\* again or brings it to Loaded.
C1_Lockout ==
    [][failed_once => /\ ~embed'.is_valid_at_startup
                      /\ (~Loaded(embed) => ~Loaded(embed'))]_vars

\* C9: when tokenization or inference fails inside get_embedding the call
\* returns None, the validity flag is as before the call, the tokenizer and
\* the session are still held, and an engine that was loaded before the
\* call is left exactly as it was.
C9_InferenceFailureContained ==
    [][ret'.infer = "fail" =>
          /\ ret'.kind = "None"
          /\ embed'.is_valid_at_startup = embed.is_valid_at_startup
          /\ Loaded(embed')
          /\ (Loaded(embed) => embed' = embed)]_vars

\* a get_embedding call gives a vector right after one that failed
C9_Witness ==
    ret.op = "get_embedding" /\ ret.kind = "vec" /\ ret.prev_fail

\* C10 as stated: check_files succeeds exactly when the three files exist
\* and the configuration document has exactly the six required keys.
C10_ExactlySixKeys ==
    ret.op = "check_files" =>
        (ret.kind = "True" <=>
            AllModelFiles /\ configDoc.kind = "object"
            /\ configDoc.keys = Range(required_keys))

\* C10 amended: check_files succeeds exactly when the three files exist and
\* the configuration document is a JSON object with all six required keys;
\* keys beyond the six are ignored.
C10_RequiredKeys ==
    ret.op = "check_files" =>
        (ret.kind = "True" <=>
            AllModelFiles /\ configDoc.kind = "object"
            /\ Range(required_keys) \subseteq configDoc.keys)

\* check_files has succeeded on a document with a seventh key
C10_Witness ==
    ret.op = "check_files" /\ ret.kind = "True" /\ ExtraKey \in configDoc.keys

\* every asset is present and loadable: the three files exist, model_info
\* is a JSON object that names every required key, no asset is corrupt
AssetsLoadable ==
    /\ AllModelFiles
    /\ configDoc.kind = "object"
    /\ Range(required_keys) \subseteq configDoc.keys
    /\ corrupt = {}

\* C15: get_embedding with a non-empty text on an engine that is validated
\* and not loaded, with every asset present and loadable, loads the engine
\* itself: the engine is Loaded after the call, tokenization and inference
\* are reached, and the call returns the embedding when they succeed.
C15_LazyLoad ==
    [][(/\ ret'.op = "get_embedding"
        /\ ret'.arg # <<>>
        /\ embed.is_valid_at_startup
        /\ ~Loaded(embed)
        /\ AssetsLoadable)
       => /\ Loaded(embed')
          /\ ret'.infer # "no"
          /\ ret'.infer = "ok" => ret'.kind = "vec"]_vars

\* get_embedding has returned an embedding from an engine that was not
\* loaded when the call began
C15_Witness ==
    /\ ret.op = "get_embedding"
    /\ ret.kind = "vec"
    /\ ~ret.was_loaded
    /\ Loaded(embed)

\* the three states of the engine
EngineState(e) ==
    IF Loaded(e) THEN "Loaded"
    ELSE IF e.is_valid_at_startup THEN "ConfigValidated" ELSE "Unconfigured"

\* C16 as stated: the engine moves only from Unconfigured to
\* ConfigValidated, from ConfigValidated to Loaded and, by unload_model,
\* from Loaded to ConfigValidated, and unload_model in a state other than
\* Loaded changes nothing.
C16_OnlyForward ==
    [][/\ EngineState(embed') # EngineState(embed) =>
             \/ EngineState(embed) = "Unconfigured" /\ EngineState(embed') = "ConfigValidated"
             \/ EngineState(embed) = "ConfigValidated" /\ EngineState(embed') = "Loaded"
             \/ /\ EngineState(embed) = "Loaded"
                /\ EngineState(embed') = "ConfigValidated"
                /\ ret'.op = "unload_model"
       /\ (ret'.op = "unload_model" /\ ~Loaded(embed)) => embed' = embed]_vars

\* C16: the validity flag is set only by a check_files call that succeeds
\* and cleared only by a check_files that fails, alone or inside load_model;
\* the engine becomes Loaded only from a validated state, by load_model or
\* by get_embedding, and leaves Loaded only by unload_model; unload_model
\* releases the tokenizer and the session and leaves the flag and the
\* configuration as they were, so that a load_model that follows it on a
\* validated engine with loadable assets loads again; on an engine that
\* holds neither handle unload_model changes nothing.
C16_Lifecycle ==
    [][/\ (embed'.is_valid_at_startup /\ ~embed.is_valid_at_startup) =>
             ret'.op = "check_files" /\ ret'.kind = "True"
       /\ (~embed'.is_valid_at_startup /\ embed.is_valid_at_startup) =>
             /\ ret'.op \in {"check_files", "load_model", "get_embedding"}
             /\ ret'.kind \in {"False", "None"}
             /\ ~AllModelFiles \/ configDoc.kind # "object"
                                \/ ~(Range(required_keys) \subseteq configDoc.keys)
       /\ (Loaded(embed') /\ ~Loaded(embed)) =>
             /\ embed.is_valid_at_startup
             /\ embed'.is_valid_at_startup
             /\ ret'.op \in {"load_model", "get_embedding"}
       /\ (Loaded(embed) /\ ~Loaded(embed')) => ret'.op = "unload_model"
       /\ ret'.op = "unload_model" =>
             /\ ~embed'.tokenizer
             /\ ~embed'.session
             /\ [embed' EXCEPT !.tokenizer = embed.tokenizer, !.session = embed.session] = embed
             /\ (~embed.tokenizer /\ ~embed.session) => embed' = embed
       /\ (/\ ret.op = "unload_model"
           /\ ret'.op = "load_model"
           /\ embed.is_valid_at_startup
           /\ AssetsLoadable) => Loaded(embed') /\ ret'.kind = "True"]_vars

\* unload_model has returned a Loaded engine to ConfigValidated
C16_Witness ==
    /\ ret.op = "unload_model"
    /\ ret.was_loaded
    /\ EngineState(embed) = "ConfigValidated"

\* C25: in every reachable state a held session implies a validated
\* engine: session is not None implies is_valid_at_startup.
C25_SessionImpliesValid ==
    embed.session => embed.is_valid_at_startup

\* C26: in every reachable state the tokenizer and the session are both
\* held or both None.
C26_HandlesTogether ==
    embed.tokenizer = embed.session

(***************************************************************************)
(* The engine of a running application whose model directory was valid     *)
(* when AppContext.__init__ called check_files.  From then on check_files  *)
(* runs only inside load_model, while the files of the directory come and  *)
(* go.                                                                     *)
(***************************************************************************)
InitRun ==
    /\ modelFiles = Range(ModelFileNames)
    /\ configDoc = GoodDoc
    /\ corrupt = {}
    /\ embed = check_files(EmbedInit, modelFiles, configDoc).e
    /\ dbFiles = Range(required)
    /\ table = <<>>
    /\ data = DataInit
    /\ ret = Ret("init", "None")
    /\ failed_once = FALSE
    /\ OtherInit

NextRun ==
    \/ \E f \in Range(ModelFileNames) : AddFile(f)
    \/ \E f \in Range(ModelFileNames) : RemoveFile(f)
    \/ \E doc \in {GoodDoc, Doc("object", Range(required_keys) \ {"hidden_size"}, 0),
                    Doc("object", Range(required_keys), MaxHidden + 1)} : WriteConfig(doc)
    \/ LoadModel
    \/ UnloadModel
    \/ \E infer \in {[ok |-> FALSE, raw |-> <<>>], [ok |-> TRUE, raw |-> <<1, 0>>]} :
          GetEmbedding(<<"a">>, infer)

SpecRun == InitRun /\ [][NextRun]_vars

\* C27: a load_model call on a validated engine that finds a file missing
\* or the configuration invalid fails and clears the validity flag, which
\* leaves an engine without a session Unconfigured; from then on the flag
\* stays cleared, and every load_model call fails and leaves the engine as
\* it is, the stored configuration included, also when the assets are all
\* back and loadable.
C27_RuntimeLockout ==
    [][/\ (/\ ret'.op = "load_model"
           /\ embed.is_valid_at_startup
           /\ ~(/\ AllModelFiles
                /\ configDoc.kind = "object"
                /\ Range(required_keys) \subseteq configDoc.keys)) =>
             /\ ret'.kind = "False"
             /\ ~embed'.is_valid_at_startup
             /\ ~embed.session => EngineState(embed') = "Unconfigured"
       /\ (ret'.op = "load_model" /\ ~embed.is_valid_at_startup) =>
             /\ ret'.kind = "False"
             /\ embed' = embed
       /\ ~embed.is_valid_at_startup => ~embed'.is_valid_at_startup]_vars

\* load_model has failed on an engine locked out by an earlier load_model,
\* with every asset back in place and another configuration on disk than
\* the one the engine holds
C27_Witness ==
    /\ ret.op = "load_model"
    /\ ret.kind = "False"
    /\ failed_once
    /\ EngineState(embed) = "Unconfigured"
    /\ AssetsLoadable
    /\ embed.model_config # configDoc

(***************************************************************************)
(* The record store: inputs                                                *)
(***************************************************************************)
EmptyList == JVal("list", <<>>)

TextJson(j) == Stored("TEXT", FALSE, TRUE, TRUE, j)

\* present and not a JSON array of numbers
Malformed(st) ==
    /\ st.sql # "NULL"
    /\ ~st.empty
    /\ ~(st.sql = "TEXT" /\ st.decodes /\ st.parses /\ st.j.t = "list")

Shape(cat1, cat2, cat3, title, maintext, embedding) ==
    [cat1 |-> cat1, cat2 |-> cat2, cat3 |-> cat3, title |-> title,
     maintext |-> maintext, embedding |-> embedding]

GoodStored == TextJson(JVal("list", <<1, 0>>))

\* Rows without their id and code.  The embedding column is declared TEXT,
\* so a number put in it is stored as text, and NULL and BLOB are the
\* values that are not text: the column is well formed, absent (NULL or
\* ''), or malformed.
DataShapes ==
    {Shape("A", "X", "P", <<"a">>, <<"b">>, st) :
        st \in {TextJson(JVal("list", <<1, 0>>)), TextJson(EmptyList),
                Stored("NULL", TRUE, TRUE, FALSE, EmptyList),
                Stored("TEXT", TRUE, TRUE, FALSE, EmptyList),
                Stored("TEXT", FALSE, TRUE, FALSE, EmptyList),      \* text that is not JSON
                TextJson(JVal("int", <<5>>)),                       \* '5'
                TextJson(JVal("str", <<1, 1, 1>>)),                 \* '"abc"'
                TextJson(JVal("mixed", <<1, 1>>)),                  \* '[1, "x"]'
                Stored("BLOB", FALSE, FALSE, FALSE, EmptyList)}}    \* bytes, not UTF-8
    \cup {Shape(None, "X", "P", <<"a">>, <<"b">>, GoodStored),
          Shape("A", None, "P", <<"a">>, <<"b">>, GoodStored),
          Shape("A", "X", "", <<"a">>, <<"b">>, GoodStored),
          Shape("B", "X", "P", <<"a">>, <<"b">>, GoodStored),
          Shape("A", "X", "P", NoneText, <<"b", "a">>, GoodStored),
          Shape("A", "X", "P", <<"A">>, NoneText, GoodStored)}

Codes == <<"K1", "K2", "K3", "K4", "K5">>

\* the table holding the given shapes: ids and codes follow the row order
MakeTable(shapes) ==
    [i \in 1..Len(shapes) |->
        [id |-> i, code |-> Codes[i], cat1 |-> shapes[i].cat1, cat2 |-> shapes[i].cat2,
         cat3 |-> shapes[i].cat3, title |-> shapes[i].title,
         maintext |-> shapes[i].maintext, embedding |-> shapes[i].embedding]]

TablesOf(shapes, n) == {MakeTable(sh) : sh \in UNION {[1..k -> shapes] : k \in 0..n}}

(***************************************************************************)
(* The dataset tool (DataBuilderApp): the embedding column it writes.  A   *)
(* float is kept as the decimal digits of its repr, sign, integer part and *)
(* fraction; a JSON text is a sequence of characters.                      *)
(***************************************************************************)
DigitChars == <<"0", "1", "2", "3", "4", "5", "6", "7", "8", "9">>

\* ndarray.tolist() on an embedding whose raw components are -1, 0 or 1 and
\* whose squared norm is at most 2: 0.0, 1.0 and 1 / sqrt(2) with their sign
tolist(vec) ==
    [i \in 1..Len(vec.v) |->
        IF vec.v[i] = 0 THEN [neg |-> FALSE, ip |-> <<0>>, fp |-> <<0>>]
        ELSE IF vec.d2 = 1 THEN [neg |-> vec.v[i] < 0, ip |-> <<1>>, fp |-> <<0>>]
        ELSE [neg |-> vec.v[i] < 0, ip |-> <<0>>,
              fp |-> <<7, 0, 7, 1, 0, 6, 7, 8, 1, 1, 8, 6, 5, 4, 7, 5>>]]

\* json.dumps writing the magnitude of each number without its sign
json_dumps_unsigned(list) ==
    LET repr(x) == [i \in 1..Len(x.ip) |-> DigitChars[x.ip[i] + 1]] \o <<".">>
                   \o [i \in 1..Len(x.fp) |-> DigitChars[x.fp[i] + 1]]
        join[n \in 0..Len(list)] ==
            IF n = 0 THEN <<>>
            ELSE IF n = 1 THEN repr(list[1])
            ELSE join[n - 1] \o <<",", " ">> \o repr(list[n])
    IN  <<"[">> \o join[Len(list)] \o <<"]">>

\* json.dumps on a list of floats
json_dumps(list) ==
    LET repr(x) == (IF x.neg THEN <<"-">> ELSE <<>>)
                   \o [i \in 1..Len(x.ip) |-> DigitChars[x.ip[i] + 1]] \o <<".">>
                   \o [i \in 1..Len(x.fp) |-> DigitChars[x.fp[i] + 1]]
        join[n \in 0..Len(list)] ==
            IF n = 0 THEN <<>>
            ELSE IF n = 1 THEN repr(list[1])
            ELSE join[n - 1] \o <<",", " ">> \o repr(list[n])
    IN  <<"[">> \o join[Len(list)] \o <<"]">>

\* json.loads on a text, for the texts that are arrays of floats: ok says
\* the text parses, v is the list of numbers
json_loads(text) ==
    LET n == Len(text)
        digit(ch) == (CHOOSE d \in 1..10 : DigitChars[d] = ch) - 1
        digits(t) == [i \in 1..Len(t) |-> digit(t[i])]
        isnum(t) == /\ t # <<>>
                    /\ \A i \in 1..Len(t) : t[i] \in Range(DigitChars)
        \* the elements of the array: the text between two commas, without
        \* the blanks in front of it
        starts == {i \in 2..(n - 1) : (i = 2 \/ text[i - 1] = ",")}
        stop(i) == CHOOSE j \in i..n : (j = n \/ text[j] = ",")
                                       /\ \A k \in i..(j - 1) : text[k] # ","
        token(i) == SelectSeq(SubSeq(text, i, stop(i) - 1), LAMBDA ch : ch # " ")
        number(t) ==
            LET neg == t # <<>> /\ t[1] = "-"
                mag == IF neg THEN Tail(t) ELSE t
                dots == {i \in 1..Len(mag) : mag[i] = "."}
                dot == CHOOSE i \in dots : TRUE
            IN  IF Cardinality(dots) # 1 THEN [ok |-> FALSE, x |-> <<>>]
                ELSE IF ~isnum(SubSeq(mag, 1, dot - 1)) \/ ~isnum(SubSeq(mag, dot + 1, Len(mag)))
                     THEN [ok |-> FALSE, x |-> <<>>]
                ELSE [ok |-> TRUE,
                      x |-> [neg |-> neg, ip |-> digits(SubSeq(mag, 1, dot - 1)),
                             fp |-> digits(SubSeq(mag, dot + 1, Len(mag)))]]
        order == [k \in 1..Cardinality(starts) |->
                     CHOOSE i \in starts : Cardinality({j \in starts : j < i}) = k - 1]
    IN  IF n < 2 \/ text[1] # "[" \/ text[n] # "]" THEN [ok |-> FALSE, v |-> <<>>]
        ELSE IF n = 2 THEN [ok |-> TRUE, v |-> <<>>]
        ELSE IF \E i \in starts : ~number(token(i)).ok THEN [ok |-> FALSE, v |-> <<>>]
        ELSE [ok |-> TRUE, v |-> [k \in 1..Len(order) |-> number(token(order[k])).x]]

\* the embedding column holding the given text
StoredText(text) ==
    Stored("TEXT", text = <<>>, TRUE, json_loads(text).ok, JVal("list", json_loads(text).v))

\* DataBuilderApp._process_answer_embed on the rows of the sheet, with the
\* tool's own engine holding a session or not; infers[i] is what
\* tokenization and inference do on row i.  embedded[i] is the list the
\* tool serialised for row i, <<>> when it wrote the default "[]".
process_answer_embed(session, sheet, infers) ==
    LET emb(i) == IF session /\ sheet[i] # NoneText /\ sheet[i] # <<>> /\ infers[i].ok
                  THEN <<tolist(l2_normalize([v |-> infers[i].raw, d2 |-> 1]))>>
                  ELSE <<>>
        emb_json(i) == IF emb(i) # <<>> THEN json_dumps(emb(i)[1]) ELSE <<"[", "]">>
    IN  [rows |-> MakeTable([i \in 1..Len(sheet) |->
                                Shape("A", "X", "P", <<"a">>, sheet[i], StoredText(emb_json(i)))]),
         embedded |-> [i \in 1..Len(sheet) |-> emb(i)]]

(***************************************************************************)
(* The L2 normalization step on its own, applied to a sentence embedding   *)
(* and then to its own result.  ret.vec is the vector, ret.arg the number  *)
(* of times the step has been applied to it.                               *)
(***************************************************************************)
L2Normalize ==
    /\ ret.op \in {"sentence_embedding", "l2_normalize"}
    /\ ret.arg[1] < 2
    /\ ret' = [Ret("l2_normalize", "vec")
                  EXCEPT !.vec = l2_normalize(ret.vec), !.arg = <<ret.arg[1] + 1>>]
    /\ UNCHANGED <<modelFiles, configDoc, corrupt, embed, dbFiles, table, data, failed_once,
                   ui, app, selection, user>>

InitNorm ==
    /\ modelFiles = Range(ModelFileNames)
    /\ configDoc = Doc("object", Range(required_keys), MaxHidden)
    /\ corrupt = {}
    /\ embed = EmbedInit
    /\ dbFiles = Range(required)
    /\ table = <<>>
    /\ data = DataInit
    /\ failed_once = FALSE
    /\ OtherInit
    /\ \E n \in 1..MaxHidden :
          \E raw \in [1..n -> -3..3] :
              ret = [Ret("sentence_embedding", "vec")
                        EXCEPT !.vec = [v |-> raw, d2 |-> 1], !.arg = <<0>>]

SpecNorm == InitNorm /\ [][L2Normalize]_vars

\* C24: the L2 normalization step returns a vector of norm zero unchanged,
\* gives every other vector norm 1, and returns a vector that has norm 1
\* already with the same value in every component.
C24_L2Idempotent ==
    [][ret'.op = "l2_normalize" =>
          LET x == ret.vec
              y == ret'.vec
          IN  /\ NormSq(x.v) = 0 => y = x
              /\ NormSq(x.v) > 0 => NormSq(y.v) = y.d2
              /\ (NormSq(x.v) > 0 /\ NormSq(x.v) = x.d2) =>
                    /\ Len(y.v) = Len(x.v)
                    /\ \A i \in 1..Len(x.v) :
                          /\ (y.v[i] > 0) = (x.v[i] > 0)
                          /\ (y.v[i] < 0) = (x.v[i] < 0)
                          /\ y.v[i] * y.v[i] * x.d2 = x.v[i] * x.v[i] * y.d2]_vars

\* the step has been applied a second time, to a normalized vector whose
\* components are not integers
C24_Witness ==
    /\ ret.op = "l2_normalize"
    /\ ret.arg = <<2>>
    /\ ret.vec.d2 > 1
    /\ NormSq(ret.vec.v) = ret.vec.d2

(***************************************************************************)
(* Steps of the environment: the files of the database directory           *)
(***************************************************************************)
AddDb(f) ==
    /\ f \notin dbFiles
    /\ dbFiles' = dbFiles \cup {f}
    /\ ret' = EnvRet
    /\ UNCHANGED <<modelFiles, configDoc, corrupt, embed, table, data, failed_once, ui, app,
                 selection, user>>

RemoveDb(f) ==
    /\ f \in dbFiles
    /\ dbFiles' = dbFiles \ {f}
    /\ ret' = EnvRet
    /\ UNCHANGED <<modelFiles, configDoc, corrupt, embed, table, data, failed_once, ui, app,
                 selection, user>>

(***************************************************************************)
(* Calls on the DataManager                                                *)
(***************************************************************************)
LoadAll ==
    \E la \in {load_all(data, dbFiles, table)} :
        /\ data' = la.d
        /\ ret' = [Ret("load_all", la.kind) EXCEPT !.exc = la.exc, !.missing = la.missing]
        /\ UNCHANGED <<modelFiles, configDoc, corrupt, embed, dbFiles, table, failed_once, ui, app,
                 selection, user>>

(***************************************************************************)
(* The record store on its own, from a fresh DataManager                   *)
(***************************************************************************)
InitData ==
    /\ modelFiles = Range(ModelFileNames)
    /\ configDoc = GoodDoc
    /\ corrupt = {}
    /\ embed = EmbedInit
    /\ dbFiles \in SUBSET Range(required)
    /\ table \in TablesOf(DataShapes, MaxRows)
    /\ data = DataInit
    /\ ret = Ret("init", "None")
    /\ failed_once = FALSE
    /\ OtherInit

NextData ==
    \/ \E f \in Range(required) : AddDb(f)
    \/ \E f \in Range(required) : RemoveDb(f)
    \/ LoadAll

SpecData == InitData /\ [][NextData]_vars

(***************************************************************************)
(* Properties of the record store                                          *)
(***************************************************************************)
AllDbFiles == Range(required) \subseteq dbFiles

MissingSource == ret.op = "load_all" /\ ret.exc = "MissingRequiredDataError"

\* C2: load_all fails with MissingRequiredDataError exactly when some
\* required source is absent, and its missing list then names every absent
\* source, each once, and no present one.
C2_MissingListExact ==
    ret.op = "load_all" =>
        /\ MissingSource <=> ~AllDbFiles
        /\ MissingSource =>
              /\ ret.kind = "raise"
              /\ Range(ret.missing) = Range(required) \ dbFiles
              /\ Len(ret.missing) = Cardinality(Range(required) \ dbFiles)

\* load_all has failed with two sources absent
C2_Witness ==
    MissingSource /\ Cardinality(Range(required) \ dbFiles) = 2

CatNames == {"A", "B", "X", "P", "Unknown", ""}

Keywords == {<<>>, <<"a">>, <<"b">>}

AllLookupsEmpty(d) ==
    /\ get_cat1_list(d) = <<>>
    /\ \A c1 \in CatNames : get_cat2_list(d, c1) = <<>>
    /\ \A c1 \in CatNames, c2 \in CatNames : get_cat3_list(d, c2, c1) = <<>>
    /\ \A c1 \in CatNames, c2 \in CatNames, c3 \in CatNames :
          get_answers_in_cat3(d, c2, c3, c1).list = <<>>
    /\ \A kw \in Keywords : search_answers(d, kw) = <<>>

\* C3: a load_all that fails with MissingRequiredDataError leaves the
\* records, the agencies, the snippets, the conjunctions and every index as
\* they were, and on a fresh store every lookup and keyword search is then
\* empty.
C3_AllOrNothing ==
    [][(ret'.op = "load_all" /\ ret'.exc = "MissingRequiredDataError") =>
          /\ data' = data
          /\ (data = DataInit => AllLookupsEmpty(data'))]_vars

\* a loaded store has gone through a load_all that failed on a missing source
C3_Witness ==
    MissingSource /\ data.index_tree # <<>> /\ data.answers # <<>>

\* C7: with the four sources present, load_all completes, keeps every row,
\* and gives the empty vector to each record whose stored embedding is
\* present but is not a JSON array of numbers.
C7_MalformedEmbeddingTolerated ==
    (ret.op = "load_all" /\ AllDbFiles) =>
        /\ ret.kind = "None"
        /\ Len(data.answers) = Len(table)
        /\ \A i \in 1..Len(table) :
              Malformed(table[i].embedding) => data.answers[i].embedding = EmptyList

(***************************************************************************)
(* The dataset tool writing the database directory and the application     *)
(* loading it                                                              *)
(***************************************************************************)
\* DataBuilderApp.run_build on a workbook that has the four sheets: the
\* tool loads its own engine from the model directory, then writes the
\* four sources.  The dataset is built before the application loads it.
RunBuild(sheet, infers) ==
    \E r \in {process_answer_embed(AssetNames \subseteq modelFiles /\ corrupt = {},
                                     sheet, infers)} :
        /\ data = DataInit
        /\ table' = r.rows
        /\ dbFiles' = Range(required)
        /\ ret' = [Ret("run_build", "None") EXCEPT !.list = r.embedded]
        /\ UNCHANGED <<modelFiles, configDoc, corrupt, embed, data, failed_once, ui, app,
                       selection, user>>

InitBuild ==
    /\ modelFiles \in {Range(ModelFileNames) \ missing : missing \in {{}, {"model.onnx"},
                                                                      {"tokenizer.json"}}}
    /\ configDoc = GoodDoc
    /\ corrupt = {}
    /\ embed = EmbedInit
    /\ dbFiles = {}
    /\ table = <<>>
    /\ data = DataInit
    /\ ret = Ret("init", "None")
    /\ failed_once = FALSE
    /\ OtherInit

NextBuild ==
    \/ \E n \in 0..MaxRows :
          \E sheet \in [1..n -> {<<"b">>, NoneText}],
             infers \in [1..n -> {[ok |-> FALSE, raw |-> <<>>]}
                                 \cup {[ok |-> TRUE, raw |-> r] :
                                          r \in {<<1, 0>>, <<0, 1>>, <<-1, 1>>, <<0, 0>>}}] :
              RunBuild(sheet, infers)
    \/ LoadAll

SpecBuild == InitBuild /\ [][NextBuild]_vars

\* C23: every vector the dataset tool has serialised into the embedding
\* column is, after the load that follows, the embedding of its record
\* with the same numbers, digit for digit, of the same length and in the
\* same order; the load keeps one record per row.
C23_RoundTrip ==
    [][(ret.op = "run_build" /\ ret'.op = "load_all") =>
          /\ ret'.kind = "None"
          /\ Len(data'.answers) = Len(ret.list)
          /\ \A i \in 1..Len(ret.list) :
                ret.list[i] # <<>> =>
                    /\ data'.answers[i].embedding.t = "list"
                    /\ data'.answers[i].embedding.v = ret.list[i][1]]_vars

\* the store has loaded a record whose vector the tool wrote as
\* [-0.7071067811865475, 0.7071067811865475]
C23_Witness ==
    /\ ret.op = "load_all"
    /\ ret.kind = "None"
    /\ \E i \in 1..Len(data.answers) :
          LET v == data.answers[i].embedding.v
          IN  /\ Len(v) = 2
              /\ v[1].neg /\ ~v[2].neg
              /\ v[1].fp = v[2].fp
              /\ Len(v[1].fp) = 16
              /\ table[i].embedding.parses

\* C28: after a load_all that succeeds, every record is in exactly one
\* bucket of index_tree, once; the buckets hold loaded records only, so
\* their sizes add up to the number of records; no cat1, cat2 or cat3 key
\* has an empty subtree and no key is listed twice; the records of a
\* bucket are in storage order.
C28_IndexPartition ==
    (ret.op = "load_all" /\ ret.kind = "None") =>
        LET tree == data.index_tree
            n == Len(data.answers)
            \* the places of the index: cat1 entry, cat2 entry, cat3 entry
            \* and position in the bucket
            places == {pl \in (1..Len(tree)) \X (1..n) \X (1..n) \X (1..n) :
                          /\ pl[2] <= Len(tree[pl[1]].v)
                          /\ pl[3] <= Len(tree[pl[1]].v[pl[2]].v)
                          /\ pl[4] <= Len(tree[pl[1]].v[pl[2]].v[pl[3]].v)}
            at(pl) == tree[pl[1]].v[pl[2]].v[pl[3]].v[pl[4]]
        IN  /\ \A r \in 1..n :
                  Cardinality({pl \in places : at(pl) = data.answers[r]}) = 1
            /\ \A pl \in places : at(pl) \in Range(data.answers)
            /\ Cardinality(places) = n
            /\ \A i \in 1..Len(tree) :
                  /\ tree[i].v # <<>>
                  /\ \A i2 \in 1..Len(tree) : tree[i2].k = tree[i].k => i2 = i
                  /\ \A j \in 1..Len(tree[i].v) :
                        /\ tree[i].v[j].v # <<>>
                        /\ \A j2 \in 1..Len(tree[i].v) :
                              tree[i].v[j2].k = tree[i].v[j].k => j2 = j
                        /\ \A k \in 1..Len(tree[i].v[j].v) :
                              /\ tree[i].v[j].v[k].v # <<>>
                              /\ \A k2 \in 1..Len(tree[i].v[j].v) :
                                    tree[i].v[j].v[k2].k = tree[i].v[j].v[k].k => k2 = k
            /\ \A pl \in places, pm \in places :
                  (/\ pl[1] = pm[1] /\ pl[2] = pm[2] /\ pl[3] = pm[3]
                   /\ pl[4] < pm[4]) => at(pl).id < at(pm).id

\* a store has loaded as many records as the table can hold, two of them
\* into the same bucket and one of them without a category
C28_Witness ==
    /\ ret.op = "load_all"
    /\ ret.kind = "None"
    /\ Len(data.answers) = MaxRows
    /\ \E i \in 1..Len(data.index_tree) :
          \E j \in 1..Len(data.index_tree[i].v) :
              \E k \in 1..Len(data.index_tree[i].v[j].v) :
                  /\ Len(data.index_tree[i].v[j].v[k].v) >= 2
                  /\ "Unknown" \in {data.index_tree[i].k, data.index_tree[i].v[j].k,
                                     data.index_tree[i].v[j].v[k].k}

(***************************************************************************)
(* Ranking: the application after AppContext.__init__, which has run       *)
(* load_all and then check_files                                           *)
(***************************************************************************)
RankShapes ==
    {Shape("A", "X", "P", <<"a">>, <<"b">>, st) :
        st \in {TextJson(JVal("list", v)) :
                   v \in {<<1, 0>>, <<0, 1>>, <<-1, 0>>, <<0, 0>>, <<1, 0, 0>>}}
                \cup {TextJson(EmptyList), TextJson(JVal("int", <<5>>))}}

\* the model directory at startup: complete, or with a configuration
\* document that lacks hidden_size
RankEnvs ==
    {[files |-> Range(ModelFileNames), doc |-> GoodDoc],
     [files |-> Range(ModelFileNames),
      doc |-> Doc("object", Range(required_keys) \ {"hidden_size"}, 0)]}

RankInferences ==
    {[ok |-> FALSE, raw |-> <<>>]}
    \cup {[ok |-> TRUE, raw |-> r] : r \in {<<1, 0>>, <<1, 1>>, <<0, 0>>}}

InitRank ==
    /\ \E env \in RankEnvs : modelFiles = env.files /\ configDoc = env.doc
    /\ corrupt = {}
    /\ dbFiles = Range(required)
    /\ table \in TablesOf(RankShapes, MaxDocs)
    /\ data = load_all(DataInit, dbFiles, table).d
    /\ embed = check_files(EmbedInit, modelFiles, configDoc).e
    /\ failed_once = ~check_files(EmbedInit, modelFiles, configDoc).ok
    /\ ret = Ret("init", "None")
    /\ OtherInit

NextRank ==
    \/ LoadModel
    \/ UnloadModel
    \/ \E top_k \in TopKs : SearchSimilarity(<<>>, top_k, [ok |-> FALSE, raw |-> <<>>])
    \/ \E query \in Queries \ {<<>>}, top_k \in TopKs, infer \in RankInferences :
          SearchSimilarity(query, top_k, infer)

SpecRank == InitRank /\ [][NextRank]_vars

(***************************************************************************)
(* Properties of the ranking                                               *)
(***************************************************************************)
Returned == ret.op = "search_similarity" /\ ret.kind = "list"

\* the documents the last search was given
Corpus == get_all_answers(data)

\* N of the last search
TopN == IF ret.top_k = <<>> THEN embed.top_k ELSE ret.top_k[1]

Ids(list) == {list[i].id : i \in 1..Len(list)}

NoEmptyVectorReturned ==
    \A i \in 1..Len(Corpus) : ~Truthy(Corpus[i].embedding) => Corpus[i].id \notin Ids(ret.list)

\* what search_similarity gives when the engine works and no entry of the
\* corpus has a vector
NoMatchValue ==
    LET e == load_model([EmbedInit EXCEPT !.is_valid_at_startup = TRUE],
                        Range(ModelFileNames), GoodDoc, {}).e
        ss == search_similarity(e, <<"a">>,
                                MakeTable(<<Shape("A", "X", "P", <<"a">>, <<"b">>, EmptyList)>>),
                                <<>>, Range(ModelFileNames), GoodDoc, {},
                                [ok |-> TRUE, raw |-> <<1, 0>>])
    IN  [kind |-> ss.kind, list |-> ss.list]

\* C4: a search on an engine that cannot be loaded returns a value that
\* differs from the one a working engine returns when it scores no entry.
C4_UnavailableDistinguishable ==
    (ret.op = "search_similarity" /\ ret.arg # <<>> /\ Corpus # <<>>
       /\ ~embed.is_valid_at_startup /\ ~Loaded(embed)) =>
        [kind |-> ret.kind, list |-> ret.list] # NoMatchValue

C6_StableTies ==
    Returned =>
        \A i \in 1..Len(ret.list), j \in 1..Len(ret.list) :
            (i < j /\ ret.list[i].score = ret.list[j].score) => ret.list[i].id < ret.list[j].id

\* three entries were scored and the cut to two kept the tie of the first
\* and the last entry of the corpus
C6_Witness ==
    /\ Returned
    /\ ret.top_k = <<2>>
    /\ Len(ret.list) = 2
    /\ ret.list[1].score = ret.list[2].score
    /\ ret.list[1].id = 1
    /\ ret.list[2].id = 3

\* C8: search_similarity returns a list and never raises.
C8_SearchNeverRaises ==
    ret.op = "search_similarity" => ret.kind = "list"

\* C21: the score of every returned entry is the dot product of the query
\* embedding and the stored vector divided by the product of their norms,
\* and 0 when either norm is zero; an entry whose vector is not empty is
\* scored also when the vector is all zero, and one without a vector is
\* left out; for the corpus [1,0], [0,1], [] and the query embedding [1,0]
\* the result is entry 1 with score 1 and then entry 2 with score 0.
C21_Cosine ==
    (Returned /\ ret.infer = "ok") =>
        LET q == ret.vec.v
            scored == {i \in 1..Len(Corpus) : Truthy(Corpus[i].embedding)}
        IN  /\ \A i \in 1..Len(ret.list) :
                  LET r == ret.list[i]
                      d == Corpus[r.id].embedding.v
                  IN  /\ r.id \in scored
                      /\ IF NormSq(q) = 0 \/ NormSq(d) = 0
                         THEN r.score = [s |-> 0, n |-> 0, d |-> 1]
                         ELSE /\ r.score.s = (IF Dot(q, d) > 0 THEN 1
                                              ELSE IF Dot(q, d) < 0 THEN -1 ELSE 0)
                              /\ r.score.d > 0
                              /\ r.score.n * NormSq(q) * NormSq(d)
                                    = r.score.d * Dot(q, d) * Dot(q, d)
            /\ Cardinality(scored) <= TopN => Ids(ret.list) = scored
            /\ (/\ [i \in 1..Len(Corpus) |-> Corpus[i].embedding.v] = <<<<1, 0>>, <<0, 1>>, <<>>>>
                /\ q = <<1, 0>>
                /\ TopN >= 2) =>
                  [i \in 1..Len(ret.list) |-> <<ret.list[i].id, ret.list[i].score>>]
                     = <<<<1, [s |-> 1, n |-> 1, d |-> 1]>>, <<2, [s |-> 0, n |-> 0, d |-> 1]>>>>

\* the corpus [1,0], [0,1], [] has been searched with the query embedding
\* [1,0] and the default top_k
C21_Witness ==
    /\ Returned
    /\ ret.infer = "ok"
    /\ ret.top_k = <<>>
    /\ ret.vec.v = <<1, 0>>
    /\ [i \in 1..Len(Corpus) |-> Corpus[i].embedding] =
          <<JVal("list", <<1, 0>>), JVal("list", <<0, 1>>), JVal("list", <<>>)>>
    /\ Len(ret.list) = 2

(***************************************************************************)
(* Queries on the DataManager                                              *)
(***************************************************************************)
GetCat1List ==
    /\ ret' = [Ret("get_cat1_list", "list") EXCEPT !.list = get_cat1_list(data)]
    /\ UNCHANGED <<modelFiles, configDoc, corrupt, embed, dbFiles, table, data, failed_once,
                   ui, app, selection, user>>

GetCat2List(cat1) ==
    /\ ret' = [Ret("get_cat2_list", "list")
                  EXCEPT !.list = get_cat2_list(data, cat1), !.arg = <<cat1>>]
    /\ UNCHANGED <<modelFiles, configDoc, corrupt, embed, dbFiles, table, data, failed_once,
                   ui, app, selection, user>>

GetCat3List(cat2, cat1) ==
    /\ ret' = [Ret("get_cat3_list", "list")
                  EXCEPT !.list = get_cat3_list(data, cat2, cat1), !.arg = <<cat1, cat2>>]
    /\ UNCHANGED <<modelFiles, configDoc, corrupt, embed, dbFiles, table, data, failed_once,
                   ui, app, selection, user>>

GetAnswersInCat3(cat2, cat3, cat1) ==
    \E r \in {get_answers_in_cat3(data, cat2, cat3, cat1)} :
        /\ ret' = [Ret("get_answers_in_cat3", r.kind)
                      EXCEPT !.list = r.list, !.exc = r.exc, !.arg = <<cat1, cat2, cat3>>]
        /\ UNCHANGED <<modelFiles, configDoc, corrupt, embed, dbFiles, table, data,
                       failed_once, ui, app, selection, user>>

SearchAnswers(keyword) ==
    /\ ret' = [Ret("search_answers", "list")
                  EXCEPT !.list = search_answers(data, keyword), !.arg = keyword]
    /\ UNCHANGED <<modelFiles, configDoc, corrupt, embed, dbFiles, table, data, failed_once,
                   ui, app, selection, user>>

GetAnswerByCode(code) ==
    /\ ret' = [Ret("get_answer_by_code", "list")
                  EXCEPT !.list = get_answer_by_code(data, code), !.arg = <<code>>]
    /\ UNCHANGED <<modelFiles, configDoc, corrupt, embed, dbFiles, table, data, failed_once,
                   ui, app, selection, user>>

GetAnswerById(ans_id) ==
    /\ ret' = [Ret("get_answer_by_id", "list")
                  EXCEPT !.list = get_answer_by_id(data, ans_id), !.arg = <<ans_id>>]
    /\ UNCHANGED <<modelFiles, configDoc, corrupt, embed, dbFiles, table, data, failed_once,
                   ui, app, selection, user>>

(***************************************************************************)
(* The category index and the keyword search, from a fresh DataManager     *)
(* whose sources are all present                                           *)
(***************************************************************************)
\* path components asked for at the three levels: names the rows carry,
\* the name missing categories are filed under, and names no row carries
PathArgs == <<{"A", "Unknown", ""}, {"X", "Unknown", "Z"}, {"P", "Unknown", "Z"}>>

InitQuery ==
    /\ modelFiles = Range(ModelFileNames)
    /\ configDoc = GoodDoc
    /\ corrupt = {}
    /\ embed = EmbedInit
    /\ dbFiles = Range(required)
    /\ table \in TablesOf(
          {Shape("A", "X", "P", <<"a">>, <<"b">>, GoodStored),
           Shape("A", "X", "", <<"A">>, NoneText, GoodStored),
           Shape("A", None, "P", NoneText, <<"b", "a">>, GoodStored),
           Shape("B", "X", "P", <<"a", "b">>, <<"B">>, GoodStored),
           Shape(None, "X", "P", <<"b">>, <<"b">>, GoodStored),
           Shape("", "X", "P", NoneText, NoneText, GoodStored),
           Shape("Unknown", "X", "P", <<"B">>, <<"A", "b">>, GoodStored)},
          MaxRows)
    /\ data = DataInit
    /\ ret = Ret("init", "None")
    /\ failed_once = FALSE
    /\ OtherInit

NextQuery ==
    \/ LoadAll
    \/ GetCat1List
    \/ \E c1 \in PathArgs[1] : GetCat2List(c1)
    \/ \E c1 \in PathArgs[1], c2 \in PathArgs[2] : GetCat3List(c2, c1)
    \/ \E c1 \in PathArgs[1], c2 \in PathArgs[2], c3 \in PathArgs[3] :
          GetAnswersInCat3(c2, c3, c1)
    \/ \E kw \in Keywords \cup {<<"A">>, <<"a", "b">>} : SearchAnswers(kw)

SpecQuery == InitQuery /\ [][NextQuery]_vars

(***************************************************************************)
(* Properties of the category index and the keyword search                 *)
(***************************************************************************)
\* C11: get_cat1_list returns, without duplicates, exactly the cat1 names
\* the loaded records carry, and "Unknown" besides them exactly when some
\* record has no cat1 (NULL or empty).
C11_TopCategoriesExact ==
    ret.op = "get_cat1_list" =>
        LET present == {rec.cat1 : rec \in {r \in Range(data.answers) :
                                                r.cat1 \notin {None, ""}}}
            sentinel == IF \E rec \in Range(data.answers) : rec.cat1 \in {None, ""}
                        THEN {"Unknown"} ELSE {}
        IN  /\ ret.kind = "list"
            /\ \A i, j \in 1..Len(ret.list) : ret.list[i] = ret.list[j] => i = j
            /\ Range(ret.list) = present \cup sentinel

\* get_cat1_list has answered on records with a name, a NULL and an empty
\* cat1
C11_Witness ==
    /\ ret.op = "get_cat1_list"
    /\ Len(data.answers) = MaxRows
    /\ \E rec \in Range(data.answers) : rec.cat1 \in {None, ""}
    /\ \E rec \in Range(data.answers) : rec.cat1 = "A"
    /\ ret.list \in {<<"A", "Unknown">>, <<"Unknown", "A">>}

\* the name a record is filed under at one level: "Unknown" for a column
\* that is NULL or empty
Bucket(c) == IF c \in {None, ""} THEN "Unknown" ELSE c

\* some loaded record is filed under the path the last lookup asked for
PathHasRecord ==
    \E rec \in Range(data.answers) :
        \A i \in 1..Len(ret.arg) :
            ret.arg[i] = Bucket(IF i = 1 THEN rec.cat1 ELSE IF i = 2 THEN rec.cat2 ELSE rec.cat3)

\* C12: get_cat2_list, get_cat3_list and get_answers_in_cat3 always return,
\* before and after the load, and return an empty list when no record is
\* filed under the path asked for.
C12_LookupsNeverRaise ==
    ret.op \in {"get_cat2_list", "get_cat3_list", "get_answers_in_cat3"} =>
        /\ ret.kind = "list"
        /\ ~PathHasRecord => ret.list = <<>>

\* get_answers_in_cat3 has answered, after the load, for a path whose cat1
\* and cat2 exist and whose cat3 does not
C12_Witness ==
    /\ ret.op = "get_answers_in_cat3"
    /\ ret.list = <<>>
    /\ \E rec \in Range(data.answers) :
          /\ ret.arg[1] = Bucket(rec.cat1)
          /\ ret.arg[2] = Bucket(rec.cat2)
    /\ ~PathHasRecord

\* C22: a category that is NULL or empty is filed under "Unknown" at its
\* own level, whatever the other two levels hold: get_answers_in_cat3
\* returns, in storage order, exactly the loaded records whose three
\* categories, each replaced by "Unknown" when missing, are the path asked
\* for.
C22_UnknownPerLevel ==
    ret.op = "get_answers_in_cat3" =>
        ret.list = SelectSeq(data.answers,
                             LAMBDA rec : /\ Bucket(rec.cat1) = ret.arg[1]
                                          /\ Bucket(rec.cat2) = ret.arg[2]
                                          /\ Bucket(rec.cat3) = ret.arg[3])

\* a record without cat2 has been found under its cat1, "Unknown" and its
\* cat3
C22_Witness ==
    /\ ret.op = "get_answers_in_cat3"
    /\ ret.arg = <<"A", "Unknown", "P">>
    /\ Len(ret.list) = 1
    /\ ret.list[1].cat1 = "A"
    /\ ret.list[1].cat2 = None
    /\ ret.list[1].cat3 = "P"

\* the last keyword search returned the loaded records one of whose title
\* and body contains kw, each once and in storage order
ReturnsMatches(kw) ==
    /\ {rec.id : rec \in Range(ret.list)} =
          {rec.id : rec \in {r \in Range(data.answers) :
                                \/ r.title # NoneText /\ Contains(r.title, kw)
                                \/ r.maintext # NoneText /\ Contains(r.maintext, kw)}}
    /\ \A i, j \in 1..Len(ret.list) : i < j => ret.list[i].id < ret.list[j].id
    /\ \A i \in 1..Len(ret.list) : ret.list[i] \in Range(data.answers)

\* C13 as stated: for every search term, the empty one included,
\* search_answers returns exactly the records whose title or body contains
\* the term.
C13_EveryTerm ==
    ret.op = "search_answers" => ReturnsMatches(ret.arg)

\* C13: for every search term that is not empty, search_answers returns
\* exactly the records whose title or body contains the term as a
\* case-sensitive literal substring, each once, in storage order; for the
\* empty term it returns nothing.
C13_NonEmptyTerm ==
    ret.op = "search_answers" =>
        IF ret.arg = <<>> THEN ret.list = <<>> ELSE ReturnsMatches(ret.arg)

\* a search for "a" has returned the record that has it only in its body
\* and not the record whose title is "A"
C13_Witness ==
    /\ ret.op = "search_answers"
    /\ ret.arg = <<"a">>
    /\ Len(ret.list) = 1
    /\ ret.list[1].title = NoneText
    /\ \E rec \in Range(data.answers) : rec.title = <<"A">>

(***************************************************************************)
(* Calls on the SelectionManager and the UserDataManager                   *)
(***************************************************************************)
\* ret.list holds the calls made to the observers, ret.arg the arguments
AddObserver(callback) ==
    /\ selection' = add_observer(selection, callback)
    /\ ret' = [Ret("add_observer", "None") EXCEPT !.arg = <<callback>>]
    /\ UNCHANGED <<modelFiles, configDoc, corrupt, embed, dbFiles, table, data, failed_once,
                   ui, app, user>>

SetSlot(slot_name, slot_data) ==
    \E r \in {set_slot(selection, slot_name, slot_data)} :
        /\ selection' = r.sel
        /\ ret' = [Ret("set_slot", IF r.ok THEN "True" ELSE "False")
                      EXCEPT !.list = r.calls, !.arg = <<slot_name, slot_data>>]
        /\ UNCHANGED <<modelFiles, configDoc, corrupt, embed, dbFiles, table, data,
                       failed_once, ui, app, user>>

ClearSlot(slot_name) ==
    \E r \in {clear_slot(selection, slot_name)} :
        /\ selection' = r.sel
        /\ ret' = [Ret("clear_slot", "None") EXCEPT !.list = r.calls, !.arg = <<slot_name>>]
        /\ UNCHANGED <<modelFiles, configDoc, corrupt, embed, dbFiles, table, data,
                       failed_once, ui, app, user>>

ClearAll ==
    \E r \in {clear_all(selection)} :
        /\ selection' = r.sel
        /\ ret' = [Ret("clear_all", "None") EXCEPT !.list = r.calls]
        /\ UNCHANGED <<modelFiles, configDoc, corrupt, embed, dbFiles, table, data,
                       failed_once, ui, app, user>>

SaveAnswerMemo(answer_id, memo) ==
    /\ user' = save_answer_memo(user, answer_id, memo)
    /\ ret' = Ret("save_answer_memo", "None")
    /\ UNCHANGED <<modelFiles, configDoc, corrupt, embed, dbFiles, table, data, failed_once,
                   ui, app, selection>>

DeleteAnswerMemo(answer_id) ==
    /\ user' = delete_answer_memo(user, answer_id)
    /\ ret' = Ret("delete_answer_memo", "None")
    /\ UNCHANGED <<modelFiles, configDoc, corrupt, embed, dbFiles, table, data, failed_once,
                   ui, app, selection>>

(***************************************************************************)
(* The managers of an AppContext, called through their public methods      *)
(* after AppContext.__init__ has loaded the sources and checked the model  *)
(* directory                                                               *)
(***************************************************************************)
\* rows with a vector, with another vector and no cat1, and with an empty
\* vector and no body
AppShapes ==
    {Shape("A", "X", "P", <<"a">>, <<"b">>, TextJson(JVal("list", <<1, 0>>))),
     Shape(None, "X", "P", <<"b">>, <<"a">>, TextJson(JVal("list", <<0, 1>>))),
     Shape("A", "X", "P", <<"a">>, NoneText, TextJson(EmptyList))}

InitFacade ==
    /\ \E env \in RankEnvs : modelFiles = env.files /\ configDoc = env.doc
    /\ corrupt = {}
    /\ dbFiles = Range(required)
    /\ table \in TablesOf(AppShapes, MaxRows)
    /\ data = load_all(DataInit, dbFiles, table).d
    /\ embed = check_files(EmbedInit, modelFiles, configDoc).e
    /\ failed_once = ~check_files(EmbedInit, modelFiles, configDoc).ok
    /\ ret = Ret("init", "None")
    /\ OtherInit

NextFacade ==
    \/ LoadModel
    \/ UnloadModel
    \/ \E text \in Queries, infer \in RankInferences : GetEmbedding(text, infer)
    \/ \E query \in Queries, top_k \in {<<>>, <<1>>}, infer \in RankInferences :
          SearchSimilarity(query, top_k, infer)
    \/ GetCat1List
    \/ \E c1 \in PathArgs[1] : GetCat2List(c1)
    \/ \E c1 \in PathArgs[1] : GetCat3List("X", c1)
    \/ \E c1 \in PathArgs[1], c3 \in PathArgs[3] : GetAnswersInCat3("X", c3, c1)
    \/ \E kw \in Keywords : SearchAnswers(kw)
    \/ \E i \in 1..MaxRows : GetAnswerByCode(Codes[i])
    \/ \E i \in 1..MaxRows : GetAnswerById(i)
    \/ \E s \in {"S1", "S3", "S9"} :
          SetSlot(s, [id |-> 1, code |-> Codes[1], text |-> <<"b">>])
    \/ \E s \in {"S1", "S3", "S9"} : ClearSlot(s)
    \/ ClearAll
    \/ \E memo \in {<<>>, <<"m", "CR", "LF">>} : SaveAnswerMemo(1, memo)
    \/ DeleteAnswerMemo(1)

SpecFacade == InitFacade /\ [][NextFacade]_vars

(***************************************************************************)
(* Properties of the managers behind the facade                            *)
(***************************************************************************)
\* C17: get_embedding on the empty text returns None and search_similarity
\* on the empty query returns the empty list, in every engine state; the
\* engine is as it was, no load is attempted (no handle taken, no error
\* dialog) and inference is not reached.
C17_EmptyInput ==
    [][/\ (ret'.op = "get_embedding" /\ ret'.arg = <<>>) =>
             /\ ret'.kind = "None"
             /\ embed' = embed
             /\ ~ret'.dialog
             /\ ret'.infer = "no"
       /\ (ret'.op = "search_similarity" /\ ret'.arg = <<>>) =>
             /\ ret'.kind = "list"
             /\ ret'.list = <<>>
             /\ embed' = embed
             /\ ~ret'.dialog
             /\ ret'.infer = "no"]_vars

\* get_embedding has been called with the empty text on a validated engine
\* that is not loaded and could load
C17_Witness ==
    /\ ret.op = "get_embedding"
    /\ ret.arg = <<>>
    /\ EngineState(embed) = "ConfigValidated"
    /\ AssetsLoadable
    /\ data.answers # <<>>

\* C18: after the load, no query, no memo operation and no slot operation
\* changes index_tree, the other indexes or the stored records; the
\* records search_similarity returns carry a score and the stored ones do
\* not.
C18_IndexImmutable ==
    [][ret'.op \in {"get_cat1_list", "get_cat2_list", "get_cat3_list", "get_answers_in_cat3",
                    "search_answers", "get_answer_by_code", "get_answer_by_id",
                    "search_similarity", "save_answer_memo", "delete_answer_memo",
                    "set_slot", "clear_slot", "clear_all"} =>
          /\ \A i \in 1..Len(data'.answers) : "score" \notin DOMAIN data'.answers[i]
          /\ data' = data
          /\ ret'.op = "search_similarity" =>
                \A i \in 1..Len(ret'.list) : "score" \in DOMAIN ret'.list[i]]_vars

\* search_similarity has returned scored records from a store with an
\* index, with a memo saved and a slot filled
C18_Witness ==
    /\ ret.op = "search_similarity"
    /\ ret.list # <<>>
    /\ data.index_tree # <<>>
    /\ user.answer_memos # <<>>
    /\ selection.slots.S1 # <<>>

(***************************************************************************)
(* The SelectionManager on its own, from a fresh instance: panels register *)
(* their callbacks and fill and clear the slots                            *)
(***************************************************************************)
InitSelect ==
    /\ modelFiles = Range(ModelFileNames)
    /\ configDoc = GoodDoc
    /\ corrupt = {}
    /\ embed = EmbedInit
    /\ dbFiles = Range(required)
    /\ table = <<>>
    /\ data = DataInit
    /\ ret = Ret("init", "None")
    /\ failed_once = FALSE
    /\ OtherInit

NextSelect ==
    \/ \E callback \in {"on_slot_changed", "other_panel"} : AddObserver(callback)
    \/ \E s \in {"S1", "S2", "S3", "S9"}, i \in 1..2 :
          SetSlot(s, [id |-> i, code |-> Codes[i], text |-> <<"b">>])
    \/ \E s \in {"S1", "S2", "S3", "S9"} : ClearSlot(s)
    \/ ClearAll

SpecSelect == InitSelect /\ [][NextSelect]_vars

\* C29: the SelectionManager holds the slots S1, S2 and S3 and no other;
\* set_slot under another name returns False, leaves the instance as it
\* is and calls no observer; set_slot under one of the three names returns
\* True, makes get_slot give the data, and leaves the other two slots as
\* they were.
C29_ThreeSlots ==
    [][/\ DOMAIN selection'.slots = {"S1", "S2", "S3"}
       /\ ret'.op = "set_slot" =>
             IF ret'.arg[1] \in {"S1", "S2", "S3"}
             THEN /\ ret'.kind = "True"
                  /\ get_slot(selection', ret'.arg[1]) = <<ret'.arg[2]>>
                  /\ \A k \in {"S1", "S2", "S3"} \ {ret'.arg[1]} :
                        selection'.slots[k] = selection.slots[k]
             ELSE /\ ret'.kind = "False"
                  /\ selection' = selection
                  /\ ret'.list = <<>>
                  /\ get_slot(selection', ret'.arg[1]) = <<>>]_vars

\* set_slot has been refused for a name that is no slot, with two
\* observers registered and a slot filled
C29_Witness ==
    /\ ret.op = "set_slot"
    /\ ret.kind = "False"
    /\ Len(selection.observers) = 2
    /\ selection.slots["S2"] # <<>>

\* C30: set_slot and clear_slot on a slot, and clear_all for each of the
\* three slots, call every registered observer exactly once for that slot
\* and no one else, and each observer then reads the new value of the
\* slot with get_slot; add_observer registers a callback that is not
\* registered yet and leaves the list as it is otherwise.
C30_NotifiedOnceAfterStore ==
    [][LET calls == ret'.list
           \* the calls are exactly one per observer for each slot named,
           \* and each callback read val
           Told(names, val) ==
               /\ \A o \in Range(selection.observers), n \in names :
                     Cardinality({i \in 1..Len(calls) :
                                    calls[i].callback = o /\ calls[i].slot = n}) = 1
               /\ \A i \in 1..Len(calls) :
                     /\ calls[i].callback \in Range(selection.observers)
                     /\ calls[i].slot \in names
                     /\ calls[i].seen = val
                     /\ selection'.slots[calls[i].slot] = val
       IN  /\ (ret'.op = "set_slot" /\ ret'.kind = "True") =>
                 Told({ret'.arg[1]}, <<ret'.arg[2]>>)
           /\ (ret'.op = "clear_slot" /\ ret'.arg[1] \in DOMAIN selection.slots) =>
                 Told({ret'.arg[1]}, <<>>)
           /\ ret'.op = "clear_all" => Told({"S1", "S2", "S3"}, <<>>)
           /\ ret'.op = "add_observer" =>
                 /\ selection'.observers =
                       IF ret'.arg[1] \in Range(selection.observers)
                       THEN selection.observers
                       ELSE Append(selection.observers, ret'.arg[1])
                 /\ \A i, j \in 1..Len(selection'.observers) :
                       selection'.observers[i] = selection'.observers[j] => i = j
           /\ ret'.op \in {"set_slot", "clear_slot", "clear_all"} =>
                 selection'.observers = selection.observers]_vars

\* clear_all has told two observers about each of the three slots
C30_Witness ==
    /\ ret.op = "clear_all"
    /\ Len(selection.observers) = 2
    /\ Len(ret.list) = 6
    /\ \A k \in {"S1", "S2", "S3"} : selection.slots[k] = <<>>

(***************************************************************************)
(* The handlers of the TextSearch panel                                    *)
(***************************************************************************)
\* the user picks the keyword or the semantic radio button
SelectMode(keyword) ==
    /\ ui.keyword_radio # keyword
    /\ ui' = [ui EXCEPT !.keyword_radio = keyword]
    /\ ret' = Ret("select_mode", "None")
    /\ UNCHANGED <<modelFiles, configDoc, corrupt, embed, dbFiles, table, data, failed_once,
                   app, selection, user>>

OnSearchClicked(input, infer) ==
    \E r \in {on_search_clicked(ui, embed, data, input, modelFiles, configDoc, corrupt,
                                infer)} :
        /\ ui' = r.u
        /\ embed' = r.e
        /\ data' = [data EXCEPT !.answers = r.docs]
        /\ ret' = [Ret("on_search_clicked", r.kind)
                      EXCEPT !.exc = r.exc, !.dialog = r.dialog, !.arg = r.query]
        /\ failed_once' = (failed_once \/ CheckFailedIn(embed, r.e))
        /\ UNCHANGED <<modelFiles, configDoc, corrupt, dbFiles, table, app, selection, user>>

(***************************************************************************)
(* The TextSearch panel of a running application.  Its load and unload     *)
(* buttons call load_model and unload_model and redraw the status label.   *)
(***************************************************************************)
InitUi ==
    /\ \E env \in RankEnvs : modelFiles = env.files /\ configDoc = env.doc
    /\ corrupt = {}
    /\ dbFiles = Range(required)
    /\ table \in TablesOf(AppShapes, MaxRows)
    /\ data = load_all(DataInit, dbFiles, table).d
    /\ embed = check_files(EmbedInit, modelFiles, configDoc).e
    /\ failed_once = ~check_files(EmbedInit, modelFiles, configDoc).ok
    /\ ret = Ret("init", "None")
    /\ OtherInit

NextUi ==
    \/ \E keyword \in BOOLEAN : SelectMode(keyword)
    \/ \E input \in {<<" ">>, <<"a", " ">>, <<"b">>}, infer \in RankInferences :
          OnSearchClicked(input, infer)
    \/ LoadModel
    \/ UnloadModel

SpecUi == InitUi /\ [][NextUi]_vars

(***************************************************************************)
(* Properties of the TextSearch panel                                      *)
(***************************************************************************)
\* C14: after a semantic search request with a non-empty query, the
\* current result list holds scored records only, the results of that
\* query, or is empty; it never still holds the records a keyword search
\* put there, also when the model load fails.
C14_NoKeywordLeak ==
    [][(ret'.op = "on_search_clicked" /\ ~ui.keyword_radio /\ ret'.arg # <<>>) =>
          \A i \in 1..Len(ui'.current_answers) : "score" \in DOMAIN ui'.current_answers[i]]_vars

(***************************************************************************)
(* main(): the steps from the start of the process to the running window   *)
(***************************************************************************)
\* context = AppContext(), with the except clause around it
ConstructContext ==
    /\ app.pc = "start"
    /\ \E r \in {AppContext_init(dbFiles, table, modelFiles, configDoc)} :
          /\ data' = r.data
          /\ embed' = r.embed
          /\ failed_once' = (r.kind = "None" /\ ~r.embed.is_valid_at_startup)
          /\ app' = IF r.kind = "raise"
                    THEN [app EXCEPT !.pc = "exited",
                                     !.shown = Append(@, [box |-> "init_failed",
                                                          missing |-> <<>>])]
                    ELSE [app EXCEPT !.pc = "constructed", !.init_error = r.init_error]
          /\ ret' = [Ret("AppContext", r.kind) EXCEPT !.exc = r.exc, !.missing = r.missing]
    /\ UNCHANGED <<modelFiles, configDoc, corrupt, dbFiles, table, ui, selection, user>>

\* frame = MainWindow(...); frame.Show(); wx.CallAfter(show_startup_checks)
CreateWindow ==
    /\ app.pc = "constructed"
    /\ app' = [app EXCEPT !.pc = "window"]
    /\ ui' = UiInit
    /\ ret' = Ret("MainWindow", "None")
    /\ UNCHANGED <<modelFiles, configDoc, corrupt, embed, dbFiles, table, data, failed_once,
                   selection, user>>

\* the event loop runs show_startup_checks
ShowStartupChecks ==
    /\ app.pc = "window"
    /\ \E r \in {show_startup_checks(app.init_error, embed.is_valid_at_startup)} :
          /\ app' = [app EXCEPT !.pc = IF r.exit THEN "exited" ELSE "running",
                                !.shown = Append(@, r.box)]
          /\ ret' = Ret("show_startup_checks", IF r.exit THEN "exit" ELSE "None")
    /\ UNCHANGED <<modelFiles, configDoc, corrupt, embed, dbFiles, table, data, failed_once,
                   ui, selection, user>>

\* The model directory is complete, lacks model.onnx, or has a
\* configuration document without hidden_size; the stored vectors have the
\* length of the model output, another length, no element, or are absent.
InitMain ==
    /\ \E env \in RankEnvs \cup {[files |-> Range(ModelFileNames) \ {"model.onnx"},
                                   doc |-> GoodDoc]} :
          modelFiles = env.files /\ configDoc = env.doc
    /\ corrupt = {}
    /\ dbFiles \in SUBSET Range(required)
    /\ table \in TablesOf(
          {Shape("A", "X", "P", <<"a">>, <<"b">>, st) :
              st \in {GoodStored, TextJson(JVal("list", <<1, 0, 0>>)), TextJson(EmptyList),
                      Stored("TEXT", TRUE, TRUE, FALSE, EmptyList)}},
          MaxRows)
    /\ data = DataInit
    /\ embed = EmbedInit
    /\ failed_once = FALSE
    /\ ret = Ret("init", "None")
    /\ OtherInit

NextMain ==
    \/ ConstructContext
    \/ CreateWindow
    \/ ShowStartupChecks

SpecMain == InitMain /\ [][NextMain]_vars

(***************************************************************************)
(* Properties of the start of the application                              *)
(***************************************************************************)
\* the message boxes shown so far that report missing data
MissingBoxes == SelectSeq(app.shown, LAMBDA b : b.box = "missing_data")

C20_VectorLengthIsHiddenSize ==
    (app.pc # "start" /\ app.init_error = <<>> /\ embed.is_valid_at_startup) =>
        \A rec \in Range(data.answers) :
            \/ ~Truthy(rec.embedding)
            \/ rec.embedding.t = "list" /\ Len(rec.embedding.v) = embed.hidden_size

====
